---- MODULE Spec2Model ----
(***************************************************************************)
(* The memory buffer agent of package buffer (src/unnamed/part_000): the   *)
(* queue, its byte counter, the pair inputLoop/outputLoop started by       *)
(* StartListening, the unified event loop (loop), CloseAsync, and the      *)
(* producer, consumer and errors reader the buffer talks to over           *)
(* unbuffered channels.  A channel handoff is one action of both peers.    *)
(* The producer sends a message and awaits its response before the next;   *)
(* the consumer answers each delivery once, with nil or an error; either   *)
(* may close its channel at any time.                                      *)
(***************************************************************************)
EXTENDS Integers, Sequences, FiniteSets, TLC

\* ---------------------------------------------------------------- bounds
MaxMsgs == 3      \* messages the producer offers
MaxSize == 1      \* largest accounted size of one message
MaxLimit == 1     \* largest configured limit
MaxTargets == 3   \* most targets a fallback router is configured with
MaxTxns == 4      \* inbound transactions the router takes
MaxStreams == 2   \* stream ids the manager's requests name
MaxFails == 2     \* error responses the consumer gives in total
MaxCount == 4     \* largest count a generate input is configured with
MaxRows == 5      \* messages a generate input without a count is followed for
MaxFiles == 3     \* files written under the directory that is loaded
MaxCalls == 3     \* calls of StartReceiving and StartListening made on one buffer

Sizes == 0..MaxSize
Nil == "nil"
ErrBufferReachedLimit == "buffer reached its limit"
ErrOutOfBounds == "index out of bounds"
ErrTimeout == "action timed out"
ConsumerErrs == {"e1", "e2"}
NoMsg == [id |-> 0, size |-> 0]
NoCall == [op |-> "none", msg |-> NoMsg, err |-> Nil, over |-> FALSE]

VARIABLES
    impl,               \* "dual": inputLoop + outputLoop; "loop": the unified loop; "calls": direct method calls
    life,               \* the Start calls made, the channels they left assigned, the loops launched
    limit, buffer, used,
    running,            \* the atomic flag m.running
    closeChan,          \* "open" | "closed"
    messagesIn,         \* the producer's channel: "open" | "closed" | "nil"
    responsesIn,        \* the consumer's response channel: "open" | "closed" | "nil"
    messagesOut, responsesOut, errorsChan,   \* "open" | "closed"
    inPc, responsePending, inMsg,            \* inputLoop
    outPc, outMsg, errMap, errs,             \* outputLoop
    loopPc, responseInPending, responseOutPending, errors,   \* loop
    prodPc, consPc, consMsg, fails, closer,  \* producer, consumer, caller of CloseAsync
    ret,                \* what the last direct call of a method returned
    waitPc,             \* the caller of WaitForClose: "idle" | "waiting" | "fired" (its timer) | "returned"
    panicked,           \* "no", or the runtime panic that ended the process
    \* history of the run, read by the properties only
    received,           \* ids of the messages the buffer took from the producer
    pushed,             \* ids appended by pushMessage
    shifted,            \* ids removed by shiftMessage
    acked,              \* ids the consumer answered with a nil error
    nacked,             \* the entry the consumer last answered with an error, until it is sent again
    responses,          \* errors of the responses sent on responsesOut
    lastBatch,          \* the error batch a reader last took from errorsChan
    lastPush,           \* size of the most recently pushed message
    \* the fallback router and the transaction it is working on
    fbProcs,            \* per target, what its transformation chain does: "prepend" | "filter"
    fbPc,               \* "off" | "idle" | "chain" | "sink"
    fbI,                \* the target being tried
    fbOrig,             \* payload of the inbound transaction
    fbMsg,              \* the message the last chain worked on
    fbLog,              \* chain runs and sink attempts made for the transaction
    fbAcks,             \* outcomes sent on the transaction's acknowledgement channel
    fbTxn,              \* inbound transactions taken
    fbConf,             \* per target: the counter its chain advances, its sink, the counters in its path
    fbCounts,           \* the process-wide named counters
    fbFiles,            \* artifacts written by the files sinks, in order
    \* the stream manager behind the HTTP endpoints
    streams,            \* m.streams: per id, the stream's config and readiness, or no stream
    req,                \* the POST /streams request being served
    resp,               \* the last response written
    posts,              \* per request of two POST /streams served at once, how far it is
    \* the generate input
    genCount,           \* its count field
    genOut,             \* the messages it has emitted
    genPc,              \* "off" | "running" | "closed"
    \* LoadStreamConfigsFromDirectory
    dirTree,            \* per file path under the directory, the config written in it, or no file
    loadRet,            \* what the call returned
    \* the buffer's mutex, followed method by method
    mutex,              \* "free" or the goroutine holding m.Mutex
    lkPc,               \* per goroutine, where it is
    lkLast              \* the last access to m.buffer or m.used

vars == <<impl, life, limit, buffer, used, running, closeChan, messagesIn, responsesIn,
          messagesOut, responsesOut, errorsChan, inPc, responsePending, inMsg,
          outPc, outMsg, errMap, errs, loopPc, responseInPending,
          responseOutPending, errors, prodPc, consPc, consMsg, fails, closer,
          ret, waitPc, panicked, received, pushed, shifted, acked, nacked,
          responses, lastBatch, lastPush,
          fbProcs, fbPc, fbI, fbOrig, fbMsg, fbLog, fbAcks, fbTxn,
          fbConf, fbCounts, fbFiles, streams, req, resp, posts,
          genCount, genOut, genPc, dirTree, loadRet, mutex, lkPc, lkLast>>

cfgVars == <<impl, life, limit>>
fbVars == <<fbProcs, fbPc, fbI, fbOrig, fbMsg, fbLog, fbAcks, fbTxn, fbConf, fbCounts, fbFiles>>
mgrVars == <<streams, req, resp, posts>>
genVars == <<genCount, genOut, genPc>>
dirVars == <<dirTree, loadRet>>
lockVars == <<mutex, lkPc, lkLast>>
extVars == <<fbVars, mgrVars, genVars, dirVars, lockVars>>
bufVars == <<cfgVars, ret, waitPc, buffer, used, pushed, lastPush, shifted, running, closeChan,
             messagesIn, responsesIn, messagesOut, responsesOut, errorsChan,
             inPc, responsePending, inMsg, outPc, outMsg, errMap, errs,
             loopPc, responseInPending, responseOutPending, errors,
             prodPc, received, responses, consPc, consMsg, fails, acked, nacked,
             closer, panicked, lastBatch>>
pushVars == <<buffer, used, pushed, lastPush>>
shiftVars == <<buffer, used, shifted>>
queueVars == <<buffer, used, pushed, lastPush, shifted>>
inVars == <<inPc, responsePending, inMsg>>
outVars == <<outPc, outMsg, errMap, errs>>
loopVars == <<loopPc, responseInPending, responseOutPending, errors>>
prodVars == <<prodPc, received, responses>>
consVars == <<consPc, consMsg, fails, acked, nacked>>

\* ---------------------------------------------------------------- helpers
RECURSIVE SumSizes(_)
SumSizes(q) == IF q = <<>> THEN 0 ELSE Head(q).size + SumSizes(Tail(q))

Ids(q) == [i \in 1..Len(q) |-> q[i].id]

IsPrefix(s, t) == Len(s) <= Len(t) /\ \A i \in 1..Len(s) : s[i] = t[i]

NoDuplicates(s) == \A i, j \in 1..Len(s) : s[i] = s[j] => i = j

\* No fallback router is part of the run.
FallbackOff ==
    /\ fbProcs = <<>> /\ fbPc = "off" /\ fbI = 0
    /\ fbOrig = <<>> /\ fbMsg = <<>> /\ fbLog = <<>> /\ fbAcks = <<>> /\ fbTxn = 0
    /\ fbConf = <<>> /\ fbCounts = <<>> /\ fbFiles = <<>>

\* The stream ids and the stream configs requests can name.
StreamNames == <<"foo", "bar", "baz", "buz">>
StreamIds == {StreamNames[i] : i \in 1..MaxStreams}
Confs == {"bloblang", "nanomsg"}

\* No stream under an id, no config for an id, no request, no response.
NoStream == [conf |-> "none", ready |-> FALSE]
NoSet == [id \in StreamIds |-> "none"]
NoReq == [kind |-> "none", infos |-> {}, newSet |-> NoSet, todo |-> {}, calls |-> <<>>, errs |-> {},
          chilled |-> FALSE, lints |-> FALSE]
NoResp == [handler |-> "none", method |-> "none", status |-> 0, notReady |-> {}, infos |-> {}, newSet |-> NoSet,
           calls |-> <<>>, id |-> "none", conf |-> "none", body |-> "none",
           chilled |-> FALSE, lints |-> FALSE, decodes |-> FALSE]

\* No stream manager is part of the run.
ManagerOff ==
    /\ streams = [id \in StreamIds |-> NoStream]
    /\ req = [NoReq EXCEPT !.kind = "off"]
    /\ resp = NoResp
    /\ posts = <<>>

\* NewMemory has returned and neither Start call was made: both inbound channels
\* are nil (channel 0) and no loop was launched.
NotStarted ==
    [calls |-> 0, msgs |-> 0, resps |-> 0, loops |-> 0, recvNil |-> FALSE, listenNil |-> FALSE]

\* StartReceiving(channel 1) and StartListening(channel 2) have returned nil and the
\* loops were launched.
Started ==
    [calls |-> 2, msgs |-> 1, resps |-> 2, loops |-> 1, recvNil |-> TRUE, listenNil |-> TRUE]

ErrAlreadyStarted == "type was already started"

\* No generate input is part of the run.
GenerateOff == genCount = 0 /\ genOut = <<>> /\ genPc = "off"

\* No directory is loaded in the run.
DirectoryOff == dirTree = <<>> /\ loadRet = <<>>

\* The mutex is not followed in the run.
LockOff == mutex = "free" /\ lkPc = <<>> /\ lkLast = <<>>

\* A runtime panic ends the process: no goroutine takes another step.
Alive == panicked = "no"

\* ---------------------------------------------------------------- the queue
\* pushMessage losing the message: nothing is stored.
pushMessage_Drop(msg) ==
    UNCHANGED <<buffer, used, pushed, lastPush>>

\* pushMessage: the caller reads its result as PushOver.
pushMessage(msg) ==
    /\ used' = used + msg.size
    /\ buffer' = Append(buffer, msg)
    /\ pushed' = Append(pushed, msg.id)
    /\ lastPush' = msg.size

PushOver == used' > limit

\* shiftMessage subtracting a size even when the queue is empty.
shiftMessage_NoEmptyCheck ==
    IF Len(buffer) = 0
    THEN used' = used - 1 /\ UNCHANGED <<buffer, shifted>>
    ELSE /\ used' = used - Head(buffer).size
         /\ buffer' = Tail(buffer)
         /\ shifted' = Append(shifted, Head(buffer).id)

\* shiftMessage removing the newest entry instead of the head.
\* shiftMessage dropping the head without giving its size back.
shiftMessage_KeepUsed ==
    IF Len(buffer) = 0
    THEN UNCHANGED <<buffer, used, shifted>>
    ELSE /\ used' = used
         /\ buffer' = Tail(buffer)
         /\ shifted' = Append(shifted, Head(buffer).id)

shiftMessage_Tail ==
    IF Len(buffer) = 0
    THEN UNCHANGED <<buffer, used, shifted>>
    ELSE /\ used' = used - buffer[Len(buffer)].size
         /\ buffer' = SubSeq(buffer, 1, Len(buffer) - 1)
         /\ shifted' = Append(shifted, buffer[Len(buffer)].id)

shiftMessage ==
    IF Len(buffer) = 0
    THEN UNCHANGED <<buffer, used, shifted>>
    ELSE /\ used' = used - Head(buffer).size
         /\ buffer' = Tail(buffer)
         /\ shifted' = Append(shifted, Head(buffer).id)

nextMessage ==
    IF Len(buffer) = 0
    THEN [msg |-> NoMsg, err |-> ErrOutOfBounds]
    ELSE [msg |-> Head(buffer), err |-> Nil]

\* limitReached reporting the limit one unit too late.
limitReached_OffByOne == used > limit + 1

limitReached == used > limit

\* m.responsesOut <- types.NewSimpleResponse(err): the producer takes the response.
sendResponse(err) ==
    /\ responsesOut = "open"
    /\ prodPc = "await"
    /\ prodPc' = "send"
    /\ responses' = Append(responses, err)

\* <-m.messagesIn delivering a message: the producer hands over its next one.
recvMessage(msg) ==
    /\ messagesIn = "open"
    /\ prodPc = "send"
    /\ Len(received) < MaxMsgs
    /\ msg.id = Len(received) + 1
    /\ msg.size \in Sizes
    /\ prodPc' = "await"
    /\ received' = Append(received, msg.id)

\* messagesOut <- msg: the consumer takes the message.
sendMessage(msg) ==
    /\ messagesOut = "open"
    /\ consPc = "recv"
    /\ consPc' = "respond"
    /\ consMsg' = msg
    /\ nacked' = NoMsg

\* <-m.responsesIn delivering a response: the consumer answers its delivery.
recvResponse(err) ==
    /\ responsesIn = "open"
    /\ consPc = "respond"
    /\ consPc' = "recv"
    /\ IF err = Nil
       THEN acked' = Append(acked, consMsg.id) /\ UNCHANGED <<fails, nacked>>
       ELSE /\ fails < MaxFails
            /\ fails' = fails + 1
            /\ nacked' = consMsg
            /\ UNCHANGED acked

\* ---------------------------------------------------------------- inputLoop
\* for atomic.LoadInt32(&m.running) == 1
InTop ==
    /\ Alive /\ impl = "dual" /\ inPc = "top"
    /\ inPc' = IF running = 1 THEN "limit" ELSE "closing"
    /\ UNCHANGED <<cfgVars, ret, waitPc, extVars, queueVars, running, closeChan, messagesIn, responsesIn,
                   messagesOut, responsesOut, errorsChan, responsePending, inMsg,
                   outVars, loopVars, prodVars, consVars, closer, panicked, lastBatch>>

\* inputLoop going on to receive whatever limitReached says.
InLimit_NoCheck ==
    /\ Alive /\ impl = "dual" /\ inPc = "limit"
    /\ inPc' = IF responsePending THEN "respondPending" ELSE "recv"
    /\ UNCHANGED <<cfgVars, ret, waitPc, extVars, queueVars, running, closeChan, messagesIn, responsesIn,
                   messagesOut, responsesOut, errorsChan, responsePending, inMsg,
                   outVars, loopVars, prodVars, consVars, closer, panicked, lastBatch>>

\* if !m.limitReached() { if responsePending ... } else { wait }
InLimit ==
    /\ Alive /\ impl = "dual" /\ inPc = "limit"
    /\ inPc' = IF ~limitReached
               THEN (IF responsePending THEN "respondPending" ELSE "recv")
               ELSE "sleep"
    /\ UNCHANGED <<cfgVars, ret, waitPc, extVars, queueVars, running, closeChan, messagesIn, responsesIn,
                   messagesOut, responsesOut, errorsChan, responsePending, inMsg,
                   outVars, loopVars, prodVars, consVars, closer, panicked, lastBatch>>

\* The deferred response reporting the limit as a failure.
InRespondPending_Err ==
    /\ Alive /\ impl = "dual" /\ inPc = "respondPending"
    /\ sendResponse(ErrBufferReachedLimit)
    /\ responsePending' = FALSE
    /\ inPc' = "recv"
    /\ UNCHANGED <<cfgVars, ret, waitPc, extVars, queueVars, running, closeChan, messagesIn, responsesIn,
                   messagesOut, responsesOut, errorsChan, inMsg, received,
                   outVars, loopVars, consVars, closer, panicked, lastBatch>>

\* the deferred response: m.responsesOut <- types.NewSimpleResponse(nil); responsePending = false
InRespondPending ==
    /\ Alive /\ impl = "dual" /\ inPc = "respondPending"
    /\ sendResponse(Nil)
    /\ responsePending' = FALSE
    /\ inPc' = "recv"
    /\ UNCHANGED <<cfgVars, ret, waitPc, extVars, queueVars, running, closeChan, messagesIn, responsesIn,
                   messagesOut, responsesOut, errorsChan, inMsg, received,
                   outVars, loopVars, consVars, closer, panicked, lastBatch>>

\* msg, open := <-m.messagesIn, a message arriving
InRecv ==
    /\ Alive /\ impl = "dual" /\ inPc = "recv"
    /\ \E size \in Sizes :
          LET msg == [id |-> Len(received) + 1, size |-> size] IN
          /\ recvMessage(msg)
          /\ inMsg' = msg
    /\ inPc' = "push"
    /\ UNCHANGED <<cfgVars, ret, waitPc, extVars, queueVars, running, closeChan, messagesIn, responsesIn,
                   messagesOut, responsesOut, errorsChan, responsePending, responses,
                   outVars, loopVars, consVars, closer, panicked, lastBatch>>

\* msg, open := <-m.messagesIn on the closed channel: atomic.StoreInt32(&m.running, 0)
InRecvClosed ==
    /\ Alive /\ impl = "dual" /\ inPc = "recv"
    /\ messagesIn = "closed"
    /\ running' = 0
    /\ inPc' = "top"
    /\ UNCHANGED <<cfgVars, ret, waitPc, extVars, queueVars, closeChan, messagesIn, responsesIn,
                   messagesOut, responsesOut, errorsChan, responsePending, inMsg,
                   outVars, loopVars, prodVars, consVars, closer, panicked, lastBatch>>

\* if !m.pushMessage(&msg) { respond } else { responsePending = true }
InPush ==
    /\ Alive /\ impl = "dual" /\ inPc = "push"
    /\ pushMessage(inMsg)
    /\ inMsg' = NoMsg
    /\ IF ~PushOver
       THEN inPc' = "respond" /\ UNCHANGED responsePending
       ELSE inPc' = "top" /\ responsePending' = TRUE
    /\ UNCHANGED <<cfgVars, ret, waitPc, extVars, shifted, running, closeChan, messagesIn, responsesIn,
                   messagesOut, responsesOut, errorsChan,
                   outVars, loopVars, prodVars, consVars, closer, panicked, lastBatch>>

\* the immediate response: m.responsesOut <- types.NewSimpleResponse(nil)
InRespond ==
    /\ Alive /\ impl = "dual" /\ inPc = "respond"
    /\ sendResponse(Nil)
    /\ inPc' = "top"
    /\ UNCHANGED <<cfgVars, ret, waitPc, extVars, queueVars, running, closeChan, messagesIn, responsesIn,
                   messagesOut, responsesOut, errorsChan, responsePending, inMsg, received,
                   outVars, loopVars, consVars, closer, panicked, lastBatch>>

\* <-time.After(time.Microsecond * 10)
InSleep ==
    /\ Alive /\ impl = "dual" /\ inPc = "sleep"
    /\ inPc' = "top"
    /\ UNCHANGED <<cfgVars, ret, waitPc, extVars, queueVars, running, closeChan, messagesIn, responsesIn,
                   messagesOut, responsesOut, errorsChan, responsePending, inMsg,
                   outVars, loopVars, prodVars, consVars, closer, panicked, lastBatch>>

\* As InClose, inputLoop going round once more after its close.
InClose_Again ==
    /\ Alive /\ impl = "dual" /\ inPc = "closing"
    /\ inPc' = "top"
    /\ IF responsesOut = "closed"
       THEN panicked' = "close of closed channel" /\ UNCHANGED responsesOut
       ELSE responsesOut' = "closed" /\ UNCHANGED panicked
    /\ UNCHANGED <<cfgVars, ret, waitPc, extVars, queueVars, running, closeChan, messagesIn, responsesIn,
                   messagesOut, errorsChan, responsePending, inMsg,
                   outVars, loopVars, prodVars, consVars, closer, lastBatch>>

\* close(m.responsesOut); m.closedWG.Done()
InClose ==
    /\ Alive /\ impl = "dual" /\ inPc = "closing"
    /\ inPc' = "done"
    /\ IF responsesOut = "closed"
       THEN panicked' = "close of closed channel" /\ UNCHANGED responsesOut
       ELSE responsesOut' = "closed" /\ UNCHANGED panicked
    /\ UNCHANGED <<cfgVars, ret, waitPc, extVars, queueVars, running, closeChan, messagesIn, responsesIn,
                   messagesOut, errorsChan, responsePending, inMsg,
                   outVars, loopVars, prodVars, consVars, closer, lastBatch>>

\* ---------------------------------------------------------------- outputLoop
\* for atomic.LoadInt32(&m.running) == 1
OutTop ==
    /\ Alive /\ impl = "dual" /\ outPc = "top"
    /\ outPc' = IF running = 1 THEN "next" ELSE "closing"
    /\ UNCHANGED <<cfgVars, ret, waitPc, extVars, queueVars, running, closeChan, messagesIn, responsesIn,
                   messagesOut, responsesOut, errorsChan, outMsg, errMap, errs,
                   inVars, loopVars, prodVars, consVars, closer, panicked, lastBatch>>

\* if msg == nil { msg, err = m.nextMessage() }; if err == nil && msg != nil { ... } else { wait }
OutNext ==
    /\ Alive /\ impl = "dual" /\ outPc = "next"
    /\ LET got == IF outMsg = NoMsg THEN nextMessage ELSE [msg |-> outMsg, err |-> Nil] IN
          /\ outMsg' = got.msg
          /\ outPc' = IF got.err = Nil /\ got.msg # NoMsg THEN "send" ELSE "sleep"
    /\ UNCHANGED <<cfgVars, ret, waitPc, extVars, queueVars, running, closeChan, messagesIn, responsesIn,
                   messagesOut, responsesOut, errorsChan, errMap, errs,
                   inVars, loopVars, prodVars, consVars, closer, panicked, lastBatch>>

\* m.messagesOut <- *msg
OutSend ==
    /\ Alive /\ impl = "dual" /\ outPc = "send"
    /\ sendMessage(outMsg)
    /\ outPc' = "wait"
    /\ UNCHANGED <<cfgVars, ret, waitPc, extVars, queueVars, running, closeChan, messagesIn, responsesIn,
                   messagesOut, responsesOut, errorsChan, outMsg, errMap, errs,
                   inVars, loopVars, prodVars, fails, acked, closer, panicked, lastBatch>>

\* res, open := <-m.responsesIn, a response arriving: nil error, or an error to
\* record in errMap (declared "var errMap map[error]struct{}", a nil map) and errs
OutRecvRes ==
    /\ Alive /\ impl = "dual" /\ outPc = "wait"
    /\ \E err \in {Nil} \cup ConsumerErrs :
          /\ recvResponse(err)
          /\ IF err = Nil
             THEN /\ outMsg' = NoMsg
                  /\ outPc' = "shift"
                  /\ UNCHANGED <<errMap, errs, panicked>>
             ELSE IF err \in errMap.keys
             THEN /\ outPc' = "errs"
                  /\ UNCHANGED <<outMsg, errMap, errs, panicked>>
             ELSE IF errMap.isNil
             THEN /\ panicked' = "assignment to entry in nil map"
                  /\ UNCHANGED <<outPc, outMsg, errMap, errs>>
             ELSE /\ errMap' = [errMap EXCEPT !.keys = @ \cup {err}]
                  /\ errs' = Append(errs, err)
                  /\ outPc' = "errs"
                  /\ UNCHANGED <<outMsg, panicked>>
    /\ UNCHANGED <<cfgVars, ret, waitPc, extVars, queueVars, running, closeChan, messagesIn, responsesIn,
                   messagesOut, responsesOut, errorsChan, consMsg,
                   inVars, loopVars, prodVars, closer, lastBatch>>

\* res, open := <-m.responsesIn on the closed channel: atomic.StoreInt32(&m.running, 0)
OutRecvResClosed ==
    /\ Alive /\ impl = "dual" /\ outPc = "wait"
    /\ responsesIn = "closed"
    /\ running' = 0
    /\ outPc' = "errs"
    /\ UNCHANGED <<cfgVars, ret, waitPc, extVars, queueVars, closeChan, messagesIn, responsesIn,
                   messagesOut, responsesOut, errorsChan, outMsg, errMap, errs,
                   inVars, loopVars, prodVars, consVars, closer, panicked, lastBatch>>

\* m.shiftMessage() after msg = nil
OutShift ==
    /\ Alive /\ impl = "dual" /\ outPc = "shift"
    /\ shiftMessage
    /\ outPc' = "errs"
    /\ UNCHANGED <<cfgVars, ret, waitPc, extVars, pushed, lastPush, running, closeChan, messagesIn, responsesIn,
                   messagesOut, responsesOut, errorsChan, outMsg, errMap, errs,
                   inVars, loopVars, prodVars, consVars, closer, panicked, lastBatch>>

\* <-time.After(time.Microsecond * 10)
OutSleep ==
    /\ Alive /\ impl = "dual" /\ outPc = "sleep"
    /\ outPc' = "errs"
    /\ UNCHANGED <<cfgVars, ret, waitPc, extVars, queueVars, running, closeChan, messagesIn, responsesIn,
                   messagesOut, responsesOut, errorsChan, outMsg, errMap, errs,
                   inVars, loopVars, prodVars, consVars, closer, panicked, lastBatch>>

\* if len(errs) > 0 { select { case m.errorsChan <- errs: ...; default: } }
OutErrs ==
    /\ Alive /\ impl = "dual" /\ outPc = "errs"
    /\ \E readerReady \in BOOLEAN :
          IF Len(errs) > 0 /\ readerReady /\ errorsChan = "open"
          THEN /\ lastBatch' = errs
               /\ errMap' = [isNil |-> FALSE, keys |-> {}]
               /\ errs' = <<>>
          ELSE UNCHANGED <<lastBatch, errMap, errs>>
    /\ outPc' = "top"
    /\ UNCHANGED <<cfgVars, ret, waitPc, extVars, queueVars, running, closeChan, messagesIn, responsesIn,
                   messagesOut, responsesOut, errorsChan, outMsg,
                   inVars, loopVars, prodVars, consVars, closer, panicked>>

\* close(m.errorsChan); close(m.messagesOut); m.closedWG.Done()
OutClose ==
    /\ Alive /\ impl = "dual" /\ outPc = "closing"
    /\ outPc' = "done"
    /\ IF errorsChan = "closed" \/ messagesOut = "closed"
       THEN panicked' = "close of closed channel" /\ UNCHANGED <<errorsChan, messagesOut>>
       ELSE errorsChan' = "closed" /\ messagesOut' = "closed" /\ UNCHANGED panicked
    /\ UNCHANGED <<cfgVars, ret, waitPc, extVars, queueVars, running, closeChan, messagesIn, responsesIn,
                   responsesOut, outMsg, errMap, errs,
                   inVars, loopVars, prodVars, consVars, closer, lastBatch>>

\* ---------------------------------------------------------------- loop
\* As OutMsgChanOn, the head offered while a response is awaited.
OutMsgChanOn_Always == Len(buffer) > 0

\* The channels one iteration of loop enables before its select.
OutMsgChanOn == ~responseInPending /\ Len(buffer) > 0
InMsgChanOn == ~limitReached /\ ~responseOutPending
OutResChanOn == ~limitReached /\ responseOutPending
ErrChanOn == Len(errors) # 0

\* case msg, open := <-inMsgChan, a message arriving: m.pushMessage(&msg); responseOutPending = true
LoopRecvMsg ==
    /\ Alive /\ impl = "loop" /\ loopPc = "select"
    /\ InMsgChanOn
    /\ \E size \in Sizes :
          LET msg == [id |-> Len(received) + 1, size |-> size] IN
          /\ recvMessage(msg)
          /\ pushMessage(msg)
    /\ responseOutPending' = TRUE
    /\ UNCHANGED <<cfgVars, ret, waitPc, extVars, shifted, running, closeChan, messagesIn, responsesIn,
                   messagesOut, responsesOut, errorsChan, loopPc, responseInPending, errors,
                   inVars, outVars, responses, consVars, closer, panicked, lastBatch>>

\* case msg, open := <-inMsgChan on the closed channel: m.messagesIn = nil
LoopRecvMsgClosed ==
    /\ Alive /\ impl = "loop" /\ loopPc = "select"
    /\ InMsgChanOn
    /\ messagesIn = "closed"
    /\ messagesIn' = "nil"
    /\ UNCHANGED <<cfgVars, ret, waitPc, extVars, queueVars, running, closeChan, responsesIn,
                   messagesOut, responsesOut, errorsChan, loopVars,
                   inVars, outVars, prodVars, consVars, closer, panicked, lastBatch>>

\* case outResChan <- types.NewSimpleResponse(nil): responseOutPending = false
LoopSendRes ==
    /\ Alive /\ impl = "loop" /\ loopPc = "select"
    /\ OutResChanOn
    /\ sendResponse(Nil)
    /\ responseOutPending' = FALSE
    /\ UNCHANGED <<cfgVars, ret, waitPc, extVars, queueVars, running, closeChan, messagesIn, responsesIn,
                   messagesOut, responsesOut, errorsChan, loopPc, responseInPending, errors,
                   inVars, outVars, received, consVars, closer, panicked, lastBatch>>

\* As LoopSendMsg, with the newest entry taken for nextMsg.
LoopSendMsg_Newest ==
    /\ Alive /\ impl = "loop" /\ loopPc = "select"
    /\ OutMsgChanOn
    /\ sendMessage(buffer[Len(buffer)])
    /\ responseInPending' = TRUE
    /\ UNCHANGED <<cfgVars, ret, waitPc, extVars, queueVars, running, closeChan, messagesIn, responsesIn,
                   messagesOut, responsesOut, errorsChan, loopPc, responseOutPending, errors,
                   inVars, outVars, prodVars, fails, acked, closer, panicked, lastBatch>>

\* case outMsgChan <- nextMsg: responseInPending = true
LoopSendMsg ==
    /\ Alive /\ impl = "loop" /\ loopPc = "select"
    /\ OutMsgChanOn
    /\ sendMessage(buffer[1])
    /\ responseInPending' = TRUE
    /\ UNCHANGED <<cfgVars, ret, waitPc, extVars, queueVars, running, closeChan, messagesIn, responsesIn,
                   messagesOut, responsesOut, errorsChan, loopPc, responseOutPending, errors,
                   inVars, outVars, prodVars, fails, acked, closer, panicked, lastBatch>>

\* loop shifting the head whatever the response says.
LoopRecvRes_ShiftOnError ==
    /\ Alive /\ impl = "loop" /\ loopPc = "select"
    /\ \E err \in {Nil} \cup ConsumerErrs :
          /\ recvResponse(err)
          /\ shiftMessage
          /\ errors' = IF err # Nil THEN Append(errors, err) ELSE errors
    /\ responseInPending' = FALSE
    /\ UNCHANGED <<cfgVars, ret, waitPc, extVars, pushed, lastPush, running, closeChan, messagesIn, responsesIn,
                   messagesOut, responsesOut, errorsChan, loopPc, responseOutPending,
                   inVars, outVars, prodVars, consMsg, closer, panicked, lastBatch>>

\* case res, open := <-m.responsesIn, a response arriving: append the error, or shiftMessage
LoopRecvRes ==
    /\ Alive /\ impl = "loop" /\ loopPc = "select"
    /\ \E err \in {Nil} \cup ConsumerErrs :
          /\ recvResponse(err)
          /\ IF err # Nil
             THEN errors' = Append(errors, err) /\ UNCHANGED shiftVars
             ELSE shiftMessage /\ UNCHANGED errors
    /\ responseInPending' = FALSE
    /\ UNCHANGED <<cfgVars, ret, waitPc, extVars, pushed, lastPush, running, closeChan, messagesIn, responsesIn,
                   messagesOut, responsesOut, errorsChan, loopPc, responseOutPending,
                   inVars, outVars, prodVars, consMsg, closer, panicked, lastBatch>>

\* case res, open := <-m.responsesIn on the closed channel: m.responsesIn = nil
LoopRecvResClosed ==
    /\ Alive /\ impl = "loop" /\ loopPc = "select"
    /\ responsesIn = "closed"
    /\ responsesIn' = "nil"
    /\ responseInPending' = FALSE
    /\ UNCHANGED <<cfgVars, ret, waitPc, extVars, queueVars, running, closeChan, messagesIn,
                   messagesOut, responsesOut, errorsChan, loopPc, responseOutPending, errors,
                   inVars, outVars, prodVars, consVars, closer, panicked, lastBatch>>

\* case errChan <- errors: errors = []error{}
LoopSendErrs ==
    /\ Alive /\ impl = "loop" /\ loopPc = "select"
    /\ ErrChanOn
    /\ errorsChan = "open"
    /\ lastBatch' = errors
    /\ errors' = <<>>
    /\ UNCHANGED <<cfgVars, ret, waitPc, extVars, queueVars, running, closeChan, messagesIn, responsesIn,
                   messagesOut, responsesOut, errorsChan, loopPc, responseInPending,
                   responseOutPending, inVars, outVars, prodVars, consVars, closer, panicked>>

\* case _, running = <-m.closeChan: the closed channel ends the for loop
LoopStop ==
    /\ Alive /\ impl = "loop" /\ loopPc = "select"
    /\ closeChan = "closed"
    /\ loopPc' = "closing"
    /\ UNCHANGED <<cfgVars, ret, waitPc, extVars, queueVars, running, closeChan, messagesIn, responsesIn,
                   messagesOut, responsesOut, errorsChan, responseInPending,
                   responseOutPending, errors,
                   inVars, outVars, prodVars, consVars, closer, panicked, lastBatch>>

\* close(m.messagesOut); close(m.errorsChan); close(m.responsesOut); m.closedWG.Done()
LoopClose ==
    /\ Alive /\ impl = "loop" /\ loopPc = "closing"
    /\ loopPc' = "done"
    /\ IF "closed" \in {messagesOut, errorsChan, responsesOut}
       THEN /\ panicked' = "close of closed channel"
            /\ UNCHANGED <<messagesOut, errorsChan, responsesOut>>
       ELSE /\ messagesOut' = "closed" /\ errorsChan' = "closed" /\ responsesOut' = "closed"
            /\ UNCHANGED panicked
    /\ UNCHANGED <<cfgVars, ret, waitPc, extVars, queueVars, running, closeChan, messagesIn, responsesIn,
                   responseInPending, responseOutPending, errors,
                   inVars, outVars, prodVars, consVars, closer, lastBatch>>

\* ---------------------------------------------------------------- the callers
\* CloseAsync: atomic.StoreInt32(&m.running, 0); close(m.closeChan)
CloseAsync ==
    /\ Alive /\ closer = "idle"
    /\ closer' = "called"
    /\ running' = 0
    /\ IF closeChan = "closed"
       THEN panicked' = "close of closed channel" /\ UNCHANGED closeChan
       ELSE closeChan' = "closed" /\ UNCHANGED panicked
    /\ UNCHANGED <<cfgVars, ret, waitPc, extVars, queueVars, messagesIn, responsesIn,
                   messagesOut, responsesOut, errorsChan,
                   inVars, outVars, loopVars, prodVars, consVars, lastBatch>>

\* The producer closes the channel it gave to StartReceiving.
ProducerClose ==
    /\ Alive /\ messagesIn = "open"
    /\ messagesIn' = "closed"
    /\ UNCHANGED <<cfgVars, ret, waitPc, extVars, queueVars, running, closeChan, responsesIn,
                   messagesOut, responsesOut, errorsChan,
                   inVars, outVars, loopVars, prodVars, consVars, closer, panicked, lastBatch>>

\* The consumer closes the channel it gave to StartListening and stops.
ConsumerClose ==
    /\ Alive /\ responsesIn = "open"
    /\ consPc # "stopped"
    /\ responsesIn' = "closed"
    /\ consPc' = "stopped"
    /\ UNCHANGED <<cfgVars, ret, waitPc, extVars, queueVars, running, closeChan, messagesIn,
                   messagesOut, responsesOut, errorsChan,
                   inVars, outVars, loopVars, prodVars, consMsg, fails, acked,
                   nacked, closer, panicked, lastBatch>>

\* ---------------------------------------------------------------- specification
\* NewMemory(limit), then StartReceiving and StartListening: the loops run.
\* Every loop that was started has run to its end (m.closedWG.Wait() returns).
LoopsFinished ==
    /\ inPc \in {"off", "done"}
    /\ outPc \in {"off", "done"}
    /\ loopPc \in {"off", "done"}

\* WaitForClose(timeout): the caller starts the goroutine that waits on the
\* WaitGroup and blocks in the select on closed and time.After(timeout).
WaitForClose ==
    /\ Alive /\ waitPc = "idle"
    /\ waitPc' = "waiting"
    /\ UNCHANGED <<cfgVars, ret, extVars, queueVars, running, closeChan, messagesIn, responsesIn,
                   messagesOut, responsesOut, errorsChan,
                   inVars, outVars, loopVars, prodVars, consVars, closer, panicked, lastBatch>>

\* The timeout elapses: the channel of time.After becomes ready.
WaitTimer ==
    /\ Alive /\ waitPc = "waiting"
    /\ waitPc' = "fired"
    /\ UNCHANGED <<cfgVars, ret, extVars, queueVars, running, closeChan, messagesIn, responsesIn,
                   messagesOut, responsesOut, errorsChan,
                   inVars, outVars, loopVars, prodVars, consVars, closer, panicked, lastBatch>>

WaitReturnNil_NoWait ==
    /\ Alive /\ waitPc \in {"waiting", "fired"}
    /\ waitPc' = "returned"
    /\ ret' = [NoCall EXCEPT !.op = "WaitForClose", !.err = Nil]
    /\ UNCHANGED <<cfgVars, extVars, queueVars, running, closeChan, messagesIn, responsesIn,
                   messagesOut, responsesOut, errorsChan,
                   inVars, outVars, loopVars, prodVars, consVars, closer, panicked, lastBatch>>

\* case <-closed: closedWG.Wait() has returned, so closed is closed; return nil.
WaitReturnNil ==
    /\ Alive /\ waitPc \in {"waiting", "fired"}
    /\ LoopsFinished
    /\ waitPc' = "returned"
    /\ ret' = [NoCall EXCEPT !.op = "WaitForClose", !.err = Nil]
    /\ UNCHANGED <<cfgVars, extVars, queueVars, running, closeChan, messagesIn, responsesIn,
                   messagesOut, responsesOut, errorsChan,
                   inVars, outVars, loopVars, prodVars, consVars, closer, panicked, lastBatch>>

\* case <-time.After(timeout): return types.ErrTimeout.  When closed is ready
\* too the select takes either case.
WaitReturnTimeout ==
    /\ Alive /\ waitPc = "fired"
    /\ waitPc' = "returned"
    /\ ret' = [NoCall EXCEPT !.op = "WaitForClose", !.err = ErrTimeout]
    /\ UNCHANGED <<cfgVars, extVars, queueVars, running, closeChan, messagesIn, responsesIn,
                   messagesOut, responsesOut, errorsChan,
                   inVars, outVars, loopVars, prodVars, consVars, closer, panicked, lastBatch>>

Init ==
    /\ impl \in {"dual", "loop"}
    /\ life = Started
    /\ limit \in 0..MaxLimit
    /\ buffer = <<>> /\ used = 0
    /\ running = 1
    /\ closeChan = "open"
    /\ messagesIn = "open" /\ responsesIn = "open"
    /\ messagesOut = "open" /\ responsesOut = "open" /\ errorsChan = "open"
    /\ inPc = (IF impl = "dual" THEN "top" ELSE "off")
    /\ responsePending = FALSE /\ inMsg = NoMsg
    /\ outPc = (IF impl = "dual" THEN "top" ELSE "off")
    /\ outMsg = NoMsg
    /\ errMap = [isNil |-> TRUE, keys |-> {}]
    /\ errs = <<>>
    /\ loopPc = (IF impl = "loop" THEN "select" ELSE "off")
    /\ responseInPending = FALSE /\ responseOutPending = FALSE
    /\ errors = <<>>
    /\ prodPc = "send" /\ consPc = "recv" /\ consMsg = NoMsg /\ fails = 0
    /\ closer = "idle"
    /\ ret = NoCall /\ waitPc = "idle"
    /\ FallbackOff /\ ManagerOff /\ GenerateOff /\ DirectoryOff /\ LockOff
    /\ panicked = "no"
    /\ received = <<>> /\ pushed = <<>> /\ shifted = <<>>
    /\ acked = <<>> /\ nacked = NoMsg /\ responses = <<>> /\ lastBatch = <<>>
    /\ lastPush = 0

Next ==
    \/ InTop \/ InLimit \/ InRespondPending \/ InRecv \/ InRecvClosed
    \/ InPush \/ InRespond \/ InSleep \/ InClose
    \/ OutTop \/ OutNext \/ OutSend \/ OutRecvRes \/ OutRecvResClosed
    \/ OutShift \/ OutSleep \/ OutErrs \/ OutClose
    \/ LoopRecvMsg \/ LoopRecvMsgClosed \/ LoopSendRes \/ LoopSendMsg
    \/ LoopRecvRes \/ LoopRecvResClosed \/ LoopSendErrs \/ LoopStop \/ LoopClose
    \/ CloseAsync \/ ProducerClose \/ ConsumerClose

Spec == Init /\ [][Next]_vars

\* The goroutines of the buffer: each is scheduled again and again, so a step
\* of it that stays possible is taken.
inputLoop ==
    \/ InTop \/ InLimit \/ InRespondPending \/ InRecv \/ InRecvClosed
    \/ InPush \/ InRespond \/ InSleep \/ InClose

outputLoop ==
    \/ OutTop \/ OutNext \/ OutSend \/ OutRecvRes \/ OutRecvResClosed
    \/ OutShift \/ OutSleep \/ OutErrs \/ OutClose

loop ==
    \/ LoopRecvMsg \/ LoopRecvMsgClosed \/ LoopSendRes \/ LoopSendMsg
    \/ LoopRecvRes \/ LoopRecvResClosed \/ LoopSendErrs \/ LoopStop \/ LoopClose

\* The run while the consumer stays and nobody calls CloseAsync.
NextLive ==
    \/ InTop \/ InLimit \/ InRespondPending \/ InRecv \/ InRecvClosed
    \/ InPush \/ InRespond \/ InSleep \/ InClose
    \/ OutTop \/ OutNext \/ OutSend \/ OutRecvRes
    \/ OutShift \/ OutSleep \/ OutErrs \/ OutClose
    \/ LoopRecvMsg \/ LoopRecvMsgClosed \/ LoopSendRes \/ LoopSendMsg
    \/ LoopRecvRes \/ LoopSendErrs
    \/ ProducerClose

SpecLive ==
    /\ Init /\ [][NextLive]_vars
    /\ WF_vars(inputLoop) /\ WF_vars(outputLoop) /\ WF_vars(loop)

\* StartListening adds the two goroutines it starts, inputLoop and outputLoop,
\* to closedWG: they are the loops a caller of WaitForClose waits for.
InitWait ==
    /\ Init
    /\ impl = "dual"

NextWait ==
    \/ InTop \/ InLimit \/ InRespondPending \/ InRecv \/ InRecvClosed
    \/ InPush \/ InRespond \/ InSleep \/ InClose
    \/ OutTop \/ OutNext \/ OutSend \/ OutRecvRes \/ OutRecvResClosed
    \/ OutShift \/ OutSleep \/ OutErrs \/ OutClose
    \/ CloseAsync \/ ProducerClose \/ ConsumerClose
    \/ WaitForClose \/ WaitTimer \/ WaitReturnNil \/ WaitReturnTimeout

SpecWait == InitWait /\ [][NextWait]_vars

\* ---------------------------------------------------------------- starting
\* The i-th Start call passes channel i.
\* StartReceiving(msgs): an error when a channel is assigned already, else the
\* channel is assigned; the launch of the loops is commented out in the source.
StartReceiving ==
    /\ Alive /\ life.calls < MaxCalls
    /\ IF messagesIn # "nil"
       THEN /\ ret' = [NoCall EXCEPT !.op = "StartReceiving", !.err = ErrAlreadyStarted]
            /\ life' = [life EXCEPT !.calls = @ + 1]
            /\ UNCHANGED messagesIn
       ELSE /\ ret' = [NoCall EXCEPT !.op = "StartReceiving", !.err = Nil]
            /\ messagesIn' = "open"
            /\ life' = [life EXCEPT !.calls = @ + 1, !.msgs = life.calls + 1, !.recvNil = TRUE]
    /\ UNCHANGED <<impl, limit, waitPc, extVars, queueVars, running, closeChan, responsesIn,
                   messagesOut, responsesOut, errorsChan,
                   inVars, outVars, loopVars, prodVars, consVars, closer, panicked, lastBatch>>

\* As StartListening, launching the loops on every call.
StartListening_Relaunch ==
    /\ Alive /\ life.calls < MaxCalls
    /\ ret' = [NoCall EXCEPT !.op = "StartListening", !.err = Nil]
    /\ responsesIn' = "open"
    /\ life' = [life EXCEPT !.calls = @ + 1, !.resps = life.calls + 1, !.listenNil = TRUE,
                            !.loops = @ + 1]
    /\ inPc' = "top" /\ outPc' = "top"
    /\ UNCHANGED <<impl, limit, waitPc, extVars, queueVars, running, closeChan, messagesIn,
                   messagesOut, responsesOut, errorsChan, responsePending, inMsg,
                   outMsg, errMap, errs,
                   loopVars, prodVars, consVars, closer, panicked, lastBatch>>

\* StartListening(responses): an error when a channel is assigned already, else
\* the channel is assigned and, if messagesIn is assigned, m.closedWG.Add(2);
\* go m.inputLoop(); go m.outputLoop().
StartListening ==
    /\ Alive /\ life.calls < MaxCalls
    /\ IF responsesIn # "nil"
       THEN /\ ret' = [NoCall EXCEPT !.op = "StartListening", !.err = ErrAlreadyStarted]
            /\ life' = [life EXCEPT !.calls = @ + 1]
            /\ UNCHANGED <<responsesIn, inPc, outPc>>
       ELSE /\ ret' = [NoCall EXCEPT !.op = "StartListening", !.err = Nil]
            /\ responsesIn' = "open"
            /\ IF messagesIn # "nil"
               THEN /\ life' = [life EXCEPT !.calls = @ + 1, !.resps = life.calls + 1,
                                            !.listenNil = TRUE, !.loops = @ + 1]
                    /\ inPc' = "top" /\ outPc' = "top"
               ELSE /\ life' = [life EXCEPT !.calls = @ + 1, !.resps = life.calls + 1,
                                            !.listenNil = TRUE]
                    /\ UNCHANGED <<inPc, outPc>>
    /\ UNCHANGED <<impl, limit, waitPc, extVars, queueVars, running, closeChan, messagesIn,
                   messagesOut, responsesOut, errorsChan, responsePending, inMsg,
                   outMsg, errMap, errs,
                   loopVars, prodVars, consVars, closer, panicked, lastBatch>>

\* A further call of CloseAsync: atomic.StoreInt32(&m.running, 0); close(m.closeChan)
CloseAsyncAgain ==
    /\ Alive /\ closer = "called"
    /\ closer' = "called again"
    /\ running' = 0
    /\ IF closeChan = "closed"
       THEN panicked' = "close of closed channel" /\ UNCHANGED closeChan
       ELSE closeChan' = "closed" /\ UNCHANGED panicked
    /\ UNCHANGED <<cfgVars, ret, waitPc, extVars, queueVars, messagesIn, responsesIn,
                   messagesOut, responsesOut, errorsChan,
                   inVars, outVars, loopVars, prodVars, consVars, lastBatch>>

\* NewMemory(limit) has returned; the Start calls are still to be made.
InitStart ==
    /\ impl = "dual"
    /\ life = NotStarted
    /\ limit \in 0..MaxLimit
    /\ buffer = <<>> /\ used = 0
    /\ running = 1
    /\ closeChan = "open"
    /\ messagesIn = "nil" /\ responsesIn = "nil"
    /\ messagesOut = "open" /\ responsesOut = "open" /\ errorsChan = "open"
    /\ inPc = "off" /\ responsePending = FALSE /\ inMsg = NoMsg
    /\ outPc = "off" /\ outMsg = NoMsg
    /\ errMap = [isNil |-> TRUE, keys |-> {}]
    /\ errs = <<>>
    /\ loopPc = "off"
    /\ responseInPending = FALSE /\ responseOutPending = FALSE
    /\ errors = <<>>
    /\ prodPc = "send" /\ consPc = "recv" /\ consMsg = NoMsg /\ fails = 0
    /\ closer = "idle"
    /\ ret = NoCall /\ waitPc = "idle"
    /\ FallbackOff /\ ManagerOff /\ GenerateOff /\ DirectoryOff /\ LockOff
    /\ panicked = "no"
    /\ received = <<>> /\ pushed = <<>> /\ shifted = <<>>
    /\ acked = <<>> /\ nacked = NoMsg /\ responses = <<>> /\ lastBatch = <<>>
    /\ lastPush = 0

NextStart ==
    \/ StartReceiving \/ StartListening \/ CloseAsync \/ CloseAsyncAgain
    \/ InTop \/ InLimit \/ InRespondPending \/ InRecv
    \/ InPush \/ InRespond \/ InSleep \/ InClose
    \/ OutTop \/ OutNext \/ OutSend \/ OutRecvRes
    \/ OutShift \/ OutSleep \/ OutErrs \/ OutClose

SpecStart == InitStart /\ [][NextStart]_vars

\* ---------------------------------------------------------------- the queue methods, called directly
\* Any sequence of calls of pushMessage, shiftMessage, nextMessage and limitReached
\* on a buffer whose loops are not running.
CallPush ==
    /\ impl = "calls"
    /\ Len(pushed) < MaxMsgs
    /\ \E size \in Sizes :
          pushMessage([id |-> Len(pushed) + 1, size |-> size])
    /\ ret' = [NoCall EXCEPT !.op = "push", !.over = PushOver]
    /\ UNCHANGED <<cfgVars, waitPc, extVars, shifted, running, closeChan, messagesIn, responsesIn,
                   messagesOut, responsesOut, errorsChan, inVars, outVars, loopVars,
                   prodVars, consVars, closer, panicked, lastBatch>>

CallShift ==
    /\ impl = "calls"
    /\ shiftMessage
    /\ ret' = [NoCall EXCEPT !.op = "shift", !.msg = nextMessage.msg]
    /\ UNCHANGED <<cfgVars, waitPc, extVars, pushed, lastPush, running, closeChan, messagesIn, responsesIn,
                   messagesOut, responsesOut, errorsChan, inVars, outVars, loopVars,
                   prodVars, consVars, closer, panicked, lastBatch>>

\* nextMessage taking the head off the queue as it returns it.
CallNext_Pop ==
    /\ impl = "calls"
    /\ ret' = [NoCall EXCEPT !.op = "next", !.msg = nextMessage.msg, !.err = nextMessage.err]
    /\ shiftMessage
    /\ UNCHANGED <<cfgVars, waitPc, extVars, pushed, lastPush, running, closeChan, messagesIn, responsesIn,
                   messagesOut, responsesOut, errorsChan, inVars, outVars, loopVars,
                   prodVars, consVars, closer, panicked, lastBatch>>

CallNext ==
    /\ impl = "calls"
    /\ ret' = [NoCall EXCEPT !.op = "next", !.msg = nextMessage.msg, !.err = nextMessage.err]
    /\ UNCHANGED <<cfgVars, waitPc, extVars, queueVars, running, closeChan, messagesIn, responsesIn,
                   messagesOut, responsesOut, errorsChan, inVars, outVars, loopVars,
                   prodVars, consVars, closer, panicked, lastBatch>>

CallLimitReached ==
    /\ impl = "calls"
    /\ ret' = [NoCall EXCEPT !.op = "limitReached", !.over = limitReached]
    /\ UNCHANGED <<cfgVars, waitPc, extVars, queueVars, running, closeChan, messagesIn, responsesIn,
                   messagesOut, responsesOut, errorsChan, inVars, outVars, loopVars,
                   prodVars, consVars, closer, panicked, lastBatch>>

\* NewMemory(limit): no channel assigned, no loop started.
InitCalls ==
    /\ impl = "calls"
    /\ life = NotStarted
    /\ limit \in 0..MaxLimit
    /\ buffer = <<>> /\ used = 0
    /\ running = 1
    /\ closeChan = "open"
    /\ messagesIn = "nil" /\ responsesIn = "nil"
    /\ messagesOut = "open" /\ responsesOut = "open" /\ errorsChan = "open"
    /\ inPc = "off" /\ responsePending = FALSE /\ inMsg = NoMsg
    /\ outPc = "off" /\ outMsg = NoMsg
    /\ errMap = [isNil |-> TRUE, keys |-> {}]
    /\ errs = <<>>
    /\ loopPc = "off"
    /\ responseInPending = FALSE /\ responseOutPending = FALSE
    /\ errors = <<>>
    /\ prodPc = "send" /\ consPc = "recv" /\ consMsg = NoMsg /\ fails = 0
    /\ closer = "idle"
    /\ ret = NoCall /\ waitPc = "idle"
    /\ FallbackOff /\ ManagerOff /\ GenerateOff /\ DirectoryOff /\ LockOff
    /\ panicked = "no"
    /\ received = <<>> /\ pushed = <<>> /\ shifted = <<>>
    /\ acked = <<>> /\ nacked = NoMsg /\ responses = <<>> /\ lastBatch = <<>>
    /\ lastPush = 0

NextCalls == CallPush \/ CallShift \/ CallNext \/ CallLimitReached

SpecCalls == InitCalls /\ [][NextCalls]_vars

\* ------------------------------------------------------- the fallback router
\* What a target's transformation chain does to a message: prepend the
\* target's text to every part, or filter every part away.
ChainKinds == {"prepend", "filter"}

\* The configured targets, in order.
fbTargets == 1..Len(fbProcs)

\* Payloads of inbound transactions: parts of text, and metadata.
Payloads ==
    { [parts |-> << <<"first">> >>, meta |-> "in"],
      [parts |-> << <<"a">>, <<"b">> >>, meta |-> "in"] }

\* The text target i's chain prepends; target B's is "two-".
TargetText == <<"one-", "two-", "three-", "four-", "five-">>

\* Outcomes on a transaction's acknowledgement channel: accepted, or rejected
\* with the error target i's sink reported.
Accepted == [accepted |-> TRUE, target |-> 0]
Rejected(i) == [accepted |-> FALSE, target |-> i]

\* Target i's chain run over message m: m as the chain leaves it.
RunChain(i, m) ==
    IF fbProcs[i] = "filter"
    THEN [parts |-> <<>>, meta |-> m.meta]
    ELSE [parts |-> [p \in DOMAIN m.parts |-> <<TargetText[i]>> \o m.parts[p]],
          meta |-> TargetText[i]]

\* The chain of the next target working on the message the last chain left.
Presented_Alias == fbMsg

\* The message handed to a chain: an independent copy of the original payload.
Presented == fbOrig

Filtered_Never(m) == FALSE

\* The chain filtered the message down to zero parts.
Filtered(m) == m.parts = <<>>

NextTarget_Skip(i) == IF i + 2 <= Len(fbProcs) THEN i + 2 ELSE i + 1

\* The target tried after target i failed.
NextTarget(i) == i + 1

Exhausted_FirstErr == Rejected(1)

Exhausted_Accepted == Accepted

\* The outcome when every target rejected: rejected with the last target's error.
Exhausted == Rejected(Len(fbProcs))

\* The names of the process-wide counters of the test's configuration.
CounterNames == {"fallbacktofoo", "fallbacktobar"}

CountUp_Stuck(c, name) == c

\* count(name): the named counter goes to its next integer.
CountUp(c, name) == [c EXCEPT ![name] = @ + 1]

\* The counters after a chain that uses count(name), or no counter, has run.
ChainCounts(c, name) == IF name = "none" THEN c ELSE CountUp(c, name)

\* The counters after the counts of a path were taken one after the other, and
\* the values the path got.
RECURSIVE PathCounts(_, _)
PathCounts(c, names) ==
    IF names = <<>> THEN c ELSE PathCounts(CountUp(c, Head(names)), Tail(names))

RECURSIVE PathName(_, _)
PathName(c, names) ==
    IF names = <<>> THEN <<>>
    ELSE <<CountUp(c, Head(names))[Head(names)]>> \o PathName(CountUp(c, Head(names)), Tail(names))

\* What an attempt at a sink can give: a sink of an unknown kind succeeds or
\* fails, one that cannot reach its service fails, a local file is written.
SinkOutcomes(kind) ==
    IF kind = "any" THEN BOOLEAN ELSE IF kind = "fail" THEN {FALSE} ELSE {TRUE}

\* The artifacts after the attempt at target i: a files sink that succeeds
\* writes one artifact, named by its path, holding the message.
FilesAfter(i, ok) ==
    IF ok /\ fbConf[i].sink = "files"
    THEN Append(fbFiles, [name |-> PathName(fbCounts, fbConf[i].path), content |-> fbMsg.parts])
    ELSE fbFiles

CountsAfter(i, ok) ==
    IF ok /\ fbConf[i].sink = "files" THEN PathCounts(fbCounts, fbConf[i].path) ELSE fbCounts

ChainRun(i, in, out) == [kind |-> "chain", target |-> i, ok |-> ~Filtered(out), msg |-> in]
SinkAttempt(i, ok, m) == [kind |-> "sink", target |-> i, ok |-> ok, msg |-> m]

\* The router takes an inbound transaction: i = 0, the first target.
FbTake ==
    /\ fbPc = "idle" /\ fbTxn < MaxTxns
    /\ \E p \in Payloads : fbOrig' = p /\ fbMsg' = p
    /\ fbI' = 1
    /\ fbLog' = <<>> /\ fbAcks' = <<>>
    /\ fbTxn' = fbTxn + 1
    /\ fbPc' = "chain"
    /\ UNCHANGED <<bufVars, mgrVars, genVars, dirVars, lockVars, fbProcs, fbConf, fbCounts, fbFiles>>

\* Steps 2 and 3: copy the payload and run target i's chain over the copy; a
\* message filtered to zero parts is an immediate success.
FbChain ==
    /\ fbPc = "chain"
    /\ LET out == RunChain(fbI, Presented) IN
         /\ fbMsg' = out
         /\ fbLog' = Append(fbLog, ChainRun(fbI, Presented, out))
         /\ fbCounts' = ChainCounts(fbCounts, fbConf[fbI].count)
         /\ IF Filtered(out)
            THEN fbAcks' = Append(fbAcks, Accepted) /\ fbPc' = "idle"
            ELSE fbPc' = "sink" /\ UNCHANGED fbAcks
    /\ UNCHANGED <<bufVars, mgrVars, genVars, dirVars, lockVars, fbProcs, fbI, fbOrig, fbTxn, fbConf, fbFiles>>

\* Step 4 with every failed attempt reported upstream.
FbSink_AckEachFailure ==
    /\ fbPc = "sink"
    /\ \E ok \in SinkOutcomes(fbConf[fbI].sink) :
         /\ fbLog' = Append(fbLog, SinkAttempt(fbI, ok, fbMsg))
         /\ fbFiles' = FilesAfter(fbI, ok)
         /\ fbCounts' = CountsAfter(fbI, ok)
         /\ IF ok
            THEN fbAcks' = Append(fbAcks, Accepted) /\ fbPc' = "idle" /\ UNCHANGED fbI
            ELSE /\ fbAcks' = Append(fbAcks, Rejected(fbI))
                 /\ IF fbI = Len(fbProcs)
                    THEN fbPc' = "idle" /\ UNCHANGED fbI
                    ELSE fbI' = NextTarget(fbI) /\ fbPc' = "chain"
    /\ UNCHANGED <<bufVars, mgrVars, genVars, dirVars, lockVars, fbProcs, fbOrig, fbMsg, fbTxn, fbConf>>

\* Step 4: one attempt at target i's sink.  Success: accepted, stop.  Failure:
\* rejected with the last target's error if i is the last, else the next target.
FbSink ==
    /\ fbPc = "sink"
    /\ \E ok \in SinkOutcomes(fbConf[fbI].sink) :
         /\ fbLog' = Append(fbLog, SinkAttempt(fbI, ok, fbMsg))
         /\ fbFiles' = FilesAfter(fbI, ok)
         /\ fbCounts' = CountsAfter(fbI, ok)
         /\ IF ok
            THEN fbAcks' = Append(fbAcks, Accepted) /\ fbPc' = "idle" /\ UNCHANGED fbI
            ELSE IF fbI = Len(fbProcs)
                 THEN fbAcks' = Append(fbAcks, Exhausted) /\ fbPc' = "idle" /\ UNCHANGED fbI
                 ELSE fbI' = NextTarget(fbI) /\ fbPc' = "chain" /\ UNCHANGED fbAcks
    /\ UNCHANGED <<bufVars, mgrVars, genVars, dirVars, lockVars, fbProcs, fbOrig, fbMsg, fbTxn, fbConf>>

\* No buffer is part of the run: none of its loops was started.
BufferOff ==
    /\ life = NotStarted
    /\ limit = 0
    /\ buffer = <<>> /\ used = 0
    /\ running = 0
    /\ closeChan = "open"
    /\ messagesIn = "nil" /\ responsesIn = "nil"
    /\ messagesOut = "open" /\ responsesOut = "open" /\ errorsChan = "open"
    /\ inPc = "off" /\ responsePending = FALSE /\ inMsg = NoMsg
    /\ outPc = "off" /\ outMsg = NoMsg
    /\ errMap = [isNil |-> TRUE, keys |-> {}]
    /\ errs = <<>>
    /\ loopPc = "off"
    /\ responseInPending = FALSE /\ responseOutPending = FALSE
    /\ errors = <<>>
    /\ prodPc = "send" /\ consPc = "recv" /\ consMsg = NoMsg /\ fails = 0
    /\ closer = "idle"
    /\ ret = NoCall /\ waitPc = "idle"
    /\ panicked = "no"
    /\ received = <<>> /\ pushed = <<>> /\ shifted = <<>>
    /\ acked = <<>> /\ nacked = NoMsg /\ responses = <<>> /\ lastBatch = <<>>
    /\ lastPush = 0

\* The router has taken no transaction yet and the counters are at zero.
RouterIdle ==
    /\ fbPc = "idle" /\ fbI = 0
    /\ fbOrig = [parts |-> <<>>, meta |-> "in"] /\ fbMsg = [parts |-> <<>>, meta |-> "in"]
    /\ fbLog = <<>> /\ fbAcks = <<>> /\ fbTxn = 0
    /\ fbCounts = [n \in CounterNames |-> 0]
    /\ fbFiles = <<>>

\* A router with N >= 1 targets, each with its chain; no buffer in front of it.
InitFallback ==
    /\ impl = "fallback"
    /\ BufferOff /\ ManagerOff /\ GenerateOff /\ DirectoryOff /\ LockOff
    /\ \E n \in 1..MaxTargets :
         /\ fbProcs \in [1..n -> ChainKinds]
         /\ fbConf = [i \in 1..n |-> [count |-> "none", sink |-> "any", path |-> <<>>]]
    /\ RouterIdle

NextFallback == FbTake \/ FbChain \/ FbSink

SpecFallback == InitFallback /\ [][NextFallback]_vars

\* The targets of TestFallbackOutputBasic: A, an http client with no server,
\* whose chain prepends a text holding count("fallbacktofoo"); B, files named
\* by count("fallbacktofoo") and count("fallbacktobar"), whose chain prepends
\* "two-"; C, the file /dev/null, whose chain prepends a text holding
\* count("fallbacktobar").
TestProcs == <<"prepend", "prepend", "prepend">>
TestConf ==
    << [count |-> "fallbacktofoo", sink |-> "fail", path |-> <<>>],
       [count |-> "none", sink |-> "files", path |-> <<"fallbacktofoo", "fallbacktobar">>],
       [count |-> "fallbacktobar", sink |-> "ok", path |-> <<>>] >>

InitFallbackTest ==
    /\ impl = "fallback"
    /\ BufferOff /\ ManagerOff /\ GenerateOff /\ DirectoryOff /\ LockOff
    /\ fbProcs = TestProcs
    /\ fbConf = TestConf
    /\ RouterIdle

SpecFallbackTest == InitFallbackTest /\ [][NextFallback]_vars

\* The sink attempts made for the transaction, and the targets of the chain runs.
SinkAttempts == SelectSeq(fbLog, LAMBDA e : e.kind = "sink")
ChainRuns == SelectSeq(fbLog, LAMBDA e : e.kind = "chain")

\* The transaction has been resolved.
Resolved == fbPc = "idle" /\ fbTxn > 0

\* --------------------------------------------------------- the stream manager
\* The manager serves one request at a time; resp is the response of the
\* request served last, and nothing while a POST is being served.
\* The ids registered in m.streams, and the ids a posted set holds.
Registered == {id \in StreamIds : streams[id].conf # "none"}
Keys(set) == {id \in StreamIds : set[id] # "none"}

\* HandleStreamsCRUD: ids of infos missing from newSet are deleted.
toDelete_None(infos, newSet) == {}

toDelete(infos, newSet) == {id \in infos : id \notin Keys(newSet)}
toUpdate(infos, newSet) == {id \in infos : id \in Keys(newSet)}
toCreate(infos, newSet) == {id \in Keys(newSet) : id \notin infos}

\* m.Delete(id, timeout): the stream is stopped and taken out of m.streams.
Delete(id) == [streams EXCEPT ![id] = NoStream]

\* m.Create(id, conf): a new stream under id, not yet connected.
Create(id, conf) == [streams EXCEPT ![id] = [conf |-> conf, ready |-> FALSE]]

\* m.Update(id, conf, timeout): nothing when the config is the same, else the
\* stream is deleted and created again with conf.
Update(id, conf) == IF streams[id].conf = conf THEN streams ELSE Create(id, conf)

\* A stream's inputs and outputs connect or disconnect: IsReady changes.
StreamConnects ==
    /\ \E id \in Registered :
         streams' = [streams EXCEPT ![id].ready = ~streams[id].ready]
    /\ UNCHANGED <<bufVars, fbVars, genVars, dirVars, lockVars, posts, req, resp>>

\* GET or POST /ready answering OK whenever some stream is ready.
HandleStreamReady_Any ==
    /\ req.kind = "none"
    /\ LET notReady == {id \in Registered : ~streams[id].ready} IN
         resp' = [NoResp EXCEPT !.handler = "ready",
                    !.status = IF notReady # Registered \/ Registered = {} THEN 200 ELSE 503,
                    !.notReady = IF notReady # Registered \/ Registered = {} THEN {} ELSE notReady]
    /\ UNCHANGED <<bufVars, fbVars, genVars, dirVars, lockVars, posts, streams, req>>

\* HandleStreamReady: under m.lock collect the streams that are not ready;
\* write OK when there is none, else 503 and their ids.
HandleStreamReady ==
    /\ req.kind = "none"
    /\ LET notReady == {id \in Registered : ~streams[id].ready} IN
         resp' = [NoResp EXCEPT !.handler = "ready",
                    !.status = IF notReady = {} THEN 200 ELSE 503,
                    !.notReady = notReady]
    /\ UNCHANGED <<bufVars, fbVars, genVars, dirVars, lockVars, posts, streams, req>>

\* HandleStreamsCRUD, GET: the ids of the streams with their status.
GetStreams ==
    /\ req.kind = "none"
    /\ resp' = [NoResp EXCEPT !.handler = "streams", !.method = "GET", !.status = 200,
                               !.infos = Registered]
    /\ UNCHANGED <<bufVars, fbVars, genVars, dirVars, lockVars, posts, streams, req>>

\* What a request body is: not YAML at all, YAML that does not decode into a
\* stream config (or a set of them), or a config.
Bodies == {"no yaml", "yaml", "config"}

\* HandleStreamsCRUD with another method, a body that cannot be read or
\* parsed, or, unless chilled, a set with lint errors: 400, nothing else.  The
\* lint errors are answered before the set is decoded.
PostStreamsBad ==
    /\ req.kind = "none"
    /\ \E method \in {"POST", "PUT"}, body \in Bodies, chilled \in BOOLEAN, lints \in BOOLEAN :
         /\ lints => body # "no yaml"
         /\ method # "POST" \/ body # "config" \/ (~chilled /\ lints)
         /\ resp' = [NoResp EXCEPT !.handler = "streams", !.method = method, !.status = 400,
                       !.infos = Registered,
                       !.chilled = chilled, !.lints = lints, !.decodes = body = "config",
                       !.body = IF method = "POST" /\ ~chilled /\ lints
                                THEN "lint_errors" ELSE "Error"]
    /\ UNCHANGED <<bufVars, fbVars, genVars, dirVars, lockVars, posts, streams, req>>

\* HandleStreamsCRUD, POST of newSet: snapshot the ids under m.lock, sort them
\* into toDelete, toUpdate and toCreate and start one goroutine for each.
PostStreams ==
    /\ req.kind = "none"
    /\ \E newSet \in [StreamIds -> Confs \cup {"none"}], chilled \in BOOLEAN, lints \in BOOLEAN :
         LET infos == Registered IN
         /\ chilled \/ ~lints
         /\ req' = [kind |-> "post", infos |-> infos, newSet |-> newSet,
                    todo |-> {<<"delete", id>> : id \in toDelete(infos, newSet)}
                             \cup {<<"update", id>> : id \in toUpdate(infos, newSet)}
                             \cup {<<"create", id>> : id \in toCreate(infos, newSet)},
                    calls |-> <<>>, errs |-> {}, chilled |-> chilled, lints |-> lints]
    /\ resp' = NoResp
    /\ UNCHANGED <<bufVars, fbVars, genVars, dirVars, lockVars, posts, streams>>

\* One of the goroutines runs: m.Delete, m.Update or m.Create returns nil or
\* an error (the stream did not stop in time, the config was rejected, the
\* id is not or is already there).
PostCall ==
    /\ req.kind = "post"
    /\ \E c \in req.todo : \E ok \in BOOLEAN :
         LET op == c[1]
             id == c[2]
             there == id \in Registered
             done == ok /\ (IF op = "create" THEN ~there ELSE there)
         IN
         /\ streams' = IF ~done THEN streams
                       ELSE IF op = "delete" THEN Delete(id)
                       ELSE IF op = "update" THEN Update(id, req.newSet[id])
                       ELSE Create(id, req.newSet[id])
         /\ req' = [req EXCEPT !.todo = @ \ {c},
                               !.calls = Append(@, c),
                               !.errs = IF done THEN @ ELSE @ \cup {c}]
    /\ UNCHANGED <<bufVars, fbVars, genVars, dirVars, lockVars, posts, resp>>

\* wg.Wait() returns: the errors are joined into requestErr, 400, or nothing
\* is written and the answer is 200.
PostDone ==
    /\ req.kind = "post" /\ req.todo = {}
    /\ resp' = [NoResp EXCEPT !.handler = "streams", !.method = "POST",
                  !.status = IF req.errs = {} THEN 200 ELSE 400,
                  !.infos = req.infos, !.newSet = req.newSet, !.calls = req.calls,
                  !.decodes = TRUE,
                  !.body = IF req.errs = {} THEN "none" ELSE "Error"]
    /\ req' = NoReq
    /\ UNCHANGED <<bufVars, fbVars, genVars, dirVars, lockVars, posts, streams>>

\* HandleStreamCRUD's readConfig: the error of reading and decoding the body comes
\* first, then, unless chilled, the lint errors; "ok" lets the request through.
readConfig(body, chilled, lints) ==
    IF body # "config" THEN "Error"
    ELSE IF ~chilled /\ lints THEN "lint_errors"
    ELSE "ok"

\* What HandleStreamCRUD answers and leaves registered.  callErr: the call to the
\* manager ends in an error other than exists / does not exist.
StreamCRUD(method, id, conf, body, chilled, lints, callErr) ==
    LET there == id \in Registered
        read == readConfig(body, chilled, lints)
        answer(status, text, strs) == [status |-> status, body |-> text, streams |-> strs]
        notFound == answer(404, "Stream not found", streams)
        gateway == answer(502, "Error", streams)
    IN
    CASE method = "POST" ->
            IF read # "ok" THEN answer(400, read, streams)
            ELSE IF there THEN answer(400, "Stream already exists", streams)
            ELSE IF callErr THEN gateway
            ELSE answer(200, "none", Create(id, conf))
      [] method = "GET" ->
            IF ~there THEN notFound
            ELSE IF callErr THEN gateway
            ELSE answer(200, "config", streams)
      [] method = "PUT" ->
            IF read # "ok" THEN answer(400, read, streams)
            ELSE IF ~there THEN notFound
            ELSE IF callErr THEN gateway
            ELSE answer(200, "none", Update(id, conf))
      [] method = "DELETE" ->
            IF ~there THEN notFound
            ELSE IF callErr THEN gateway
            ELSE answer(200, "none", Delete(id))
      [] method = "PATCH" ->
            IF ~there THEN notFound
            ELSE IF body # "config" THEN answer(400, "Error", streams)
            ELSE IF callErr THEN gateway
            ELSE answer(200, "none", Update(id, conf))
      [] OTHER -> answer(400, "Error", streams)

Methods == {"POST", "GET", "PUT", "DELETE", "PATCH", "HEAD"}

\* The requests HandleStreamCRUD tells apart: only POST, PUT and PATCH read a
\* body, only a body that is a config holds one, only POST and PUT look at
\* chilled and lint, and only YAML can be linted.
Request(method, conf, body, chilled, lints) ==
    /\ body = "none" <=> method \notin {"POST", "PUT", "PATCH"}
    /\ conf = "none" <=> body # "config"
    /\ (chilled \/ lints) => method \in {"POST", "PUT"}
    /\ lints => body # "no yaml"

\* What is written to the client, with the request it answers.
Answer(method, id, conf, body, chilled, lints, status, text) ==
    [NoResp EXCEPT !.handler = "stream", !.method = method, !.id = id, !.conf = conf,
                   !.chilled = chilled, !.lints = lints, !.decodes = body = "config",
                   !.status = status, !.body = text]

\* As HandleStreamCRUD, the config going to the manager whatever its lints.
HandleStreamCRUD_NoGate ==
    /\ req.kind = "none"
    /\ \E method \in Methods, id \in StreamIds, conf \in Confs \cup {"none"},
          body \in Bodies \cup {"none"}, chilled \in BOOLEAN, lints \in BOOLEAN :
         /\ Request(method, conf, body, chilled, lints)
         /\ \E callErr \in BOOLEAN :
              LET out == StreamCRUD(method, id, conf, body, TRUE, lints, callErr) IN
              /\ streams' = out.streams
              /\ resp' = Answer(method, id, conf, body, chilled, lints, out.status, out.body)
    /\ UNCHANGED <<bufVars, fbVars, genVars, dirVars, lockVars, posts, req>>

\* As HandleStreamCRUD, an id that is not there answered as a server error.
HandleStreamCRUD_Gateway ==
    /\ req.kind = "none"
    /\ \E method \in Methods, id \in StreamIds, conf \in Confs \cup {"none"},
          body \in Bodies \cup {"none"}, chilled \in BOOLEAN, lints \in BOOLEAN :
         /\ Request(method, conf, body, chilled, lints)
         /\ \E callErr \in BOOLEAN :
              LET out == StreamCRUD(method, id, conf, body, chilled, lints, callErr) IN
              /\ streams' = out.streams
              /\ resp' = Answer(method, id, conf, body, chilled, lints,
                                IF out.status = 404 THEN 502 ELSE out.status, out.body)
    /\ UNCHANGED <<bufVars, fbVars, genVars, dirVars, lockVars, posts, req>>

\* HandleStreamCRUD: POST, GET, PUT, DELETE or PATCH of /streams/{id}.
HandleStreamCRUD ==
    /\ req.kind = "none"
    /\ \E method \in Methods, id \in StreamIds, conf \in Confs \cup {"none"},
          body \in Bodies \cup {"none"}, chilled \in BOOLEAN, lints \in BOOLEAN :
         /\ Request(method, conf, body, chilled, lints)
         /\ \E callErr \in BOOLEAN :
              LET out == StreamCRUD(method, id, conf, body, chilled, lints, callErr) IN
              /\ streams' = out.streams
              /\ resp' = Answer(method, id, conf, body, chilled, lints, out.status, out.body)
    /\ UNCHANGED <<bufVars, fbVars, genVars, dirVars, lockVars, posts, req>>

\* A manager with some streams already running; no buffer or router modelled.
InitManager ==
    /\ impl = "manager"
    /\ BufferOff
    /\ FallbackOff /\ GenerateOff /\ DirectoryOff /\ LockOff
    /\ streams \in [StreamIds -> {NoStream} \cup [conf : Confs, ready : BOOLEAN]]
    /\ req = NoReq
    /\ resp = NoResp
    /\ posts = <<>>

NextManager ==
    \/ StreamConnects \/ HandleStreamReady \/ GetStreams
    \/ PostStreamsBad \/ PostStreams \/ PostCall \/ PostDone

SpecManager == InitManager /\ [][NextManager]_vars

\* The requests for one stream, and the requests for the set as far as their
\* gate: a POST of /streams that is let through goes on to its calls, which
\* NextManager runs.
NextStream ==
    \/ StreamConnects
    \/ HandleStreamCRUD
    \/ PostStreamsBad \/ PostStreams

SpecStream == InitManager /\ [][NextStream]_vars

\* Two POST /streams requests served at once, each by its own HandleStreamsCRUD.
Posters == {1, 2}
NoPost == [pc |-> "idle", infos |-> {}, newSet |-> NoSet, todo |-> {}, errs |-> {}]

\* The request arrives: the ids are snapshot under m.lock, the lock is released,
\* the body is read and the ids are sorted into toDelete, toUpdate and toCreate.
ConPost ==
    /\ \E r \in Posters : \E newSet \in [StreamIds -> {"bloblang", "none"}] :
         /\ posts[r].pc = "idle"
         /\ LET infos == Registered IN
            posts' = [posts EXCEPT ![r] =
                        [pc |-> "calls", infos |-> infos, newSet |-> newSet,
                         todo |-> {<<"delete", id>> : id \in toDelete(infos, newSet)}
                                  \cup {<<"update", id>> : id \in toUpdate(infos, newSet)}
                                  \cup {<<"create", id>> : id \in toCreate(infos, newSet)},
                         errs |-> {}]]
    /\ UNCHANGED <<bufVars, fbVars, genVars, dirVars, lockVars, streams, req, resp>>

\* One goroutine of one request runs m.Delete, m.Update or m.Create.
ConCall ==
    /\ \E r \in Posters : \E c \in posts[r].todo : \E ok \in BOOLEAN :
         LET op == c[1]
             id == c[2]
             there == id \in Registered
             done == ok /\ (IF op = "create" THEN ~there ELSE there)
         IN
         /\ posts[r].pc = "calls"
         /\ streams' = IF ~done THEN streams
                       ELSE IF op = "delete" THEN Delete(id)
                       ELSE IF op = "update" THEN Update(id, posts[r].newSet[id])
                       ELSE Create(id, posts[r].newSet[id])
         /\ posts' = [posts EXCEPT ![r].todo = @ \ {c},
                                   ![r].errs = IF done THEN @ ELSE @ \cup {c}]
    /\ UNCHANGED <<bufVars, fbVars, genVars, dirVars, lockVars, req, resp>>

\* wg.Wait() returns in one request and the handler returns: 200, or 400 with
\* the errors of its calls.
ConDone ==
    /\ \E r \in Posters :
         /\ posts[r].pc = "calls" /\ posts[r].todo = {}
         /\ posts' = [posts EXCEPT ![r].pc = IF posts[r].errs = {} THEN "200" ELSE "400"]
    /\ UNCHANGED <<bufVars, fbVars, genVars, dirVars, lockVars, streams, req, resp>>

InitConcurrent ==
    /\ impl = "manager"
    /\ BufferOff
    /\ FallbackOff /\ GenerateOff /\ DirectoryOff /\ LockOff
    /\ streams \in [StreamIds -> {NoStream, [conf |-> "bloblang", ready |-> FALSE]}]
    /\ req = NoReq
    /\ resp = NoResp
    /\ posts = [r \in Posters |-> NoPost]

NextConcurrent == ConPost \/ ConCall \/ ConDone

SpecConcurrent == InitConcurrent /\ [][NextConcurrent]_vars

\* --------------------------------------------------------- the generate input
\* What the example mapping yields: a row of type foo or of type bar.
Rows == {"foo", "bar"}

\* The input is due another message: no count is set, or fewer than count are out.
GenDue == genCount = 0 \/ Len(genOut) < genCount

\* As GenEmit, with the count ignored.
GenEmit_Uncounted ==
    /\ genPc = "running"
    /\ Len(genOut) < MaxRows
    /\ \E r \in Rows : genOut' = Append(genOut, r)
    /\ UNCHANGED <<bufVars, fbVars, mgrVars, dirVars, lockVars, genCount, genPc>>

\* One message is generated from the mapping and taken downstream.
GenEmit ==
    /\ genPc = "running"
    /\ GenDue
    /\ Len(genOut) < MaxRows
    /\ \E r \in Rows : genOut' = Append(genOut, r)
    /\ UNCHANGED <<bufVars, fbVars, mgrVars, dirVars, lockVars, genCount, genPc>>

\* The specified number of messages is out: the input shuts down.
GenShutdown ==
    /\ genPc = "running"
    /\ ~GenDue
    /\ genPc' = "closed"
    /\ UNCHANGED <<bufVars, fbVars, mgrVars, dirVars, lockVars, genCount, genOut>>

\* The pipeline the input is part of is stopped from outside.
GenStopped ==
    /\ genPc = "running"
    /\ genPc' = "stopped"
    /\ UNCHANGED <<bufVars, fbVars, mgrVars, dirVars, lockVars, genCount, genOut>>

InitGenerate ==
    /\ impl = "generate"
    /\ BufferOff /\ FallbackOff /\ ManagerOff /\ DirectoryOff /\ LockOff
    /\ genCount \in 0..MaxCount
    /\ genOut = <<>>
    /\ genPc = "running"

NextGenerate == GenEmit \/ GenShutdown \/ GenStopped

\* Downstream keeps consuming, so a due message is eventually generated, and an
\* input that is through eventually shuts down.
SpecGenerate ==
    InitGenerate /\ [][NextGenerate]_vars /\ WF_vars(GenEmit) /\ WF_vars(GenShutdown)

\* ------------------------------------------- LoadStreamConfigsFromDirectory
\* A path relative to the directory, as its names, its separators and, last, its
\* extension.
Paths ==
    { <<"foo", ".json">>, <<"foo", ".yaml">>,
      <<"bar", "/", "test", ".yaml">>, <<"bar", "_", "test", ".yaml">>,
      <<"bar", "/", "notes", ".txt">>, <<"a", "/", "b", "/", "c", ".json">> }
NoFile == "no file"
ConfigExts == {".json", ".yaml"}

IsConfig(path) == path[Len(path)] \in ConfigExts
TrimExt(path) == SubSeq(path, 1, Len(path) - 1)
ReplaceSeps(path) == [i \in DOMAIN path |-> IF path[i] = "/" THEN "_" ELSE path[i]]

\* As StreamId, with the separators left in.
StreamId_KeepSeps(path) == TrimExt(path)

\* The id a config file is loaded under.
StreamId(path) == ReplaceSeps(TrimExt(path))

\* The config files found walking the directory.
ConfigFiles(tree) == {p \in Paths : tree[p] # NoFile /\ IsConfig(p)}

\* The outcomes of loading: every config file's config under its id.  Where two
\* files have one id the call fails or either file's config is under the id.
Loads(tree) ==
    LET files == ConfigFiles(tree)
        ids == {StreamId(p) : p \in files}
        picks == {w \in [ids -> files] : \A k \in ids : StreamId(w[k]) = k}
    IN  {[err |-> FALSE, confs |-> [k \in ids |-> tree[w[k]]]] : w \in picks}
          \cup (IF Cardinality(ids) < Cardinality(files)
                 THEN {[err |-> TRUE, confs |-> <<>>]} ELSE {})

\* os.WriteFile of a marshalled config (or, for notes.txt, of anything) under the
\* directory.
WriteFile ==
    /\ loadRet = <<>>
    /\ Cardinality({p \in Paths : dirTree[p] # NoFile}) < MaxFiles
    /\ \E p \in Paths, c \in Confs :
          /\ dirTree[p] = NoFile
          /\ dirTree' = [dirTree EXCEPT ![p] = c]
    /\ UNCHANGED <<bufVars, fbVars, mgrVars, genVars, lockVars, loadRet>>

LoadStreamConfigsFromDirectory ==
    /\ loadRet = <<>>
    /\ loadRet' \in Loads(dirTree)
    /\ UNCHANGED <<bufVars, fbVars, mgrVars, genVars, lockVars, dirTree>>

InitDirectory ==
    /\ impl = "directory"
    /\ BufferOff /\ FallbackOff /\ ManagerOff /\ GenerateOff /\ LockOff
    /\ dirTree = [p \in Paths |-> NoFile]
    /\ loadRet = <<>>

NextDirectory == WriteFile \/ LoadStreamConfigsFromDirectory

SpecDirectory == InitDirectory /\ [][NextDirectory]_vars

\* ------------------------------------------------------------- the mutex
\* The goroutines of a buffer and, for each, the points it moves through: the top
\* of its for loop ("top"), a queue method's m.Lock() ("lock"), the method's body
\* ("held"), its deferred m.Unlock() ("unlock"), a read of the queue made in the
\* loop itself ("raw"), a channel operation, select or timed wait ("block"), and
\* the end of the loop ("done").  Which branch is taken is left open.
Goroutines(i) == IF i = "loop" THEN {"loop"} ELSE {"inputLoop", "outputLoop"}
At(a, o) == [at |-> a, op |-> o]
NoAccess == [by |-> "none", op |-> "none", held |-> TRUE]

\* Where a goroutine goes from the top of its loop.
FromTop(g) ==
    CASE g = "inputLoop" -> {At("lock", "limitReached"), At("done", "close")}
      [] g = "outputLoop" ->
            {At("lock", "nextMessage"), At("block", "messagesOut <-"), At("done", "close")}
      [] g = "loop" -> {At("raw", "len(m.buffer)")}

\* Where a goroutine goes when the queue method op has returned.
AfterCall(g, op) ==
    CASE g = "inputLoop" /\ op = "limitReached" ->
            {At("block", "responsesOut <- (pending)"), At("block", "<-messagesIn"),
             At("block", "<-time.After")}
      [] g = "inputLoop" /\ op = "pushMessage" ->
            {At("block", "responsesOut <-"), At("top", "for")}
      [] g = "outputLoop" /\ op = "nextMessage" ->
            {At("block", "messagesOut <-"), At("block", "<-time.After")}
      [] g = "outputLoop" /\ op = "shiftMessage" -> {At("top", "for")}
      [] g = "loop" /\ op = "limitReached" -> {At("block", "select")}
      [] g = "loop" /\ op \in {"pushMessage", "shiftMessage"} -> {At("top", "for")}

\* Where a goroutine goes when the operation it was suspended in completes.
AfterBlock(g, op) ==
    CASE op = "responsesOut <- (pending)" -> {At("block", "<-messagesIn")}
      [] op = "<-messagesIn" -> {At("lock", "pushMessage"), At("top", "for")}
      [] op = "responsesOut <-" -> {At("top", "for")}
      [] op = "<-time.After" -> {At("top", "for")}
      [] op = "messagesOut <-" -> {At("block", "<-responsesIn")}
      [] op = "<-responsesIn" -> {At("lock", "shiftMessage"), At("top", "for")}
      [] op = "select" ->
            {At("lock", "pushMessage"), At("lock", "shiftMessage"), At("top", "for"),
             At("done", "close")}

LkTop ==
    \E g \in Goroutines(impl) :
        /\ lkPc[g].at = "top"
        /\ \E n \in FromTop(g) : lkPc' = [lkPc EXCEPT ![g] = n]
        /\ UNCHANGED <<bufVars, fbVars, mgrVars, genVars, dirVars, mutex, lkLast>>

\* m.Lock()
LkLock ==
    \E g \in Goroutines(impl) :
        /\ lkPc[g].at = "lock"
        /\ mutex = "free"
        /\ mutex' = g
        /\ lkPc' = [lkPc EXCEPT ![g].at = "held"]
        /\ UNCHANGED <<bufVars, fbVars, mgrVars, genVars, dirVars, lkLast>>

\* The body of a queue method: it reads or writes m.buffer and m.used.
LkAccess ==
    \E g \in Goroutines(impl) :
        /\ lkPc[g].at = "held"
        /\ lkLast' = [by |-> g, op |-> lkPc[g].op, held |-> mutex = g]
        /\ lkPc' = [lkPc EXCEPT ![g].at = "unlock"]
        /\ UNCHANGED <<bufVars, fbVars, mgrVars, genVars, dirVars, mutex>>

\* As LkUnlock, the method returning without its deferred m.Unlock().
LkUnlock_Keep ==
    \E g \in Goroutines(impl) :
        /\ lkPc[g].at = "unlock"
        /\ \E n \in AfterCall(g, lkPc[g].op) : lkPc' = [lkPc EXCEPT ![g] = n]
        /\ UNCHANGED <<bufVars, fbVars, mgrVars, genVars, dirVars, mutex, lkLast>>

\* defer m.Unlock(), and the return to the loop.
LkUnlock ==
    \E g \in Goroutines(impl) :
        /\ lkPc[g].at = "unlock"
        /\ mutex' = "free"
        /\ \E n \in AfterCall(g, lkPc[g].op) : lkPc' = [lkPc EXCEPT ![g] = n]
        /\ UNCHANGED <<bufVars, fbVars, mgrVars, genVars, dirVars, lkLast>>

\* loop reads len(m.buffer) and *m.buffer[0] itself, then calls limitReached.
LkRaw ==
    \E g \in Goroutines(impl) :
        /\ lkPc[g].at = "raw"
        /\ lkLast' = [by |-> g, op |-> lkPc[g].op, held |-> mutex = g]
        /\ lkPc' = [lkPc EXCEPT ![g] = At("lock", "limitReached")]
        /\ UNCHANGED <<bufVars, fbVars, mgrVars, genVars, dirVars, mutex>>

\* A channel operation, the select or a timed wait completes.
LkBlock ==
    \E g \in Goroutines(impl) :
        /\ lkPc[g].at = "block"
        /\ \E n \in AfterBlock(g, lkPc[g].op) : lkPc' = [lkPc EXCEPT ![g] = n]
        /\ UNCHANGED <<bufVars, fbVars, mgrVars, genVars, dirVars, mutex, lkLast>>

InitLock ==
    /\ impl \in {"dual", "loop"}
    /\ BufferOff /\ FallbackOff /\ ManagerOff /\ GenerateOff /\ DirectoryOff
    /\ mutex = "free"
    /\ lkPc = [g \in Goroutines(impl) |-> At("top", "for")]
    /\ lkLast = NoAccess

NextLock == LkTop \/ LkLock \/ LkAccess \/ LkUnlock \/ LkRaw \/ LkBlock

SpecLock == InitLock /\ [][NextLock]_vars

\* ---------------------------------------------------------------- properties
\* A message was handed to the consumer in this step.
Delivery == consPc = "recv" /\ consPc' = "respond"

\* C1: the entries removed by shiftMessage are a prefix of the entries appended by
\* pushMessage, in the same order; the queue holds exactly the entries pushed and
\* not yet shifted, in push order; and the entry the consumer holds (the one the
\* output side sent and waits on) is the head of the queue.
C1_Fifo ==
    /\ IsPrefix(shifted, pushed)
    /\ pushed = shifted \o Ids(buffer)
    /\ (consPc = "respond" => buffer # <<>> /\ consMsg = Head(buffer))
    /\ (outMsg # NoMsg => buffer # <<>> /\ outMsg = Head(buffer))

\* Two entries were shifted while a third one waits in the queue.
C1_Witness == Len(shifted) = 2 /\ Len(pushed) = 3 /\ Len(buffer) = 1

\* C2: used equals the sum of the sizes of the queued entries and is never negative,
\* after any sequence of pushMessage and shiftMessage calls.
C2_Conservation == used = SumSizes(buffer) /\ used >= 0

\* shiftMessage was just called on an empty queue that had held entries before.
C2_Witness ==
    /\ ret.op = "shift" /\ ret.msg = NoMsg
    /\ Len(shifted) >= 1 /\ lastPush > 0

\* C3: used never exceeds the limit by more than the most recently pushed message.
C3_Bound == used <= limit + lastPush

\* A push took usage above the limit after an earlier entry had been drained.
C3_Witness == used > limit /\ Len(shifted) >= 1 /\ Len(pushed) >= 2

\* C4: no message is received from the producer, and pushMessage is not executed,
\* in a state where used > limit.
C4_Backpressure ==
    [][(received' # received \/ pushed' # pushed) => used <= limit]_vars

\* Usage is above the limit, the producer's channel is open and the input side is
\* at the point where it does not receive.
C4_Witness ==
    /\ used > limit /\ messagesIn = "open" /\ Alive
    /\ Len(received) < MaxMsgs
    /\ inPc = "sleep" \/ (loopPc = "select" /\ ~InMsgChanOn)

\* C5: every response sent to the producer carries a nil error.
C5_NilResponses == \A i \in 1..Len(responses) : responses[i] = Nil

\* The response of a push that took usage above the limit (size 1, limit 0) was sent.
C5_Witness ==
    /\ limit = 0 /\ lastPush = 1
    /\ Len(pushed) >= 1 /\ Len(responses) = Len(pushed)

\* C6: a response is sent only after the message it answers was appended by
\* pushMessage: the k-th response follows the k-th push.
C6_StoreThenAck == Len(responses) <= Len(pushed)

\* Two messages were stored and answered.
C6_Witness == Len(pushed) = 2 /\ Len(responses) = 2

\* C7: every message received gets exactly one response: never more responses than
\* messages received, and none missing once the buffer has closed responsesOut.
C7_ExactlyOneAck ==
    /\ Len(responses) <= Len(received)
    /\ (responsesOut = "closed" => Len(responses) = Len(received))

\* C8: an entry is shifted only after the consumer answered its delivery with a nil
\* error: the shifted entries are a prefix of the acknowledged ones, at most one
\* acknowledged entry awaiting its shift.
C8_ShiftAfterAck ==
    /\ IsPrefix(shifted, acked)
    /\ Len(acked) <= Len(shifted) + 1
    /\ (Len(shifted) = 0 => \/ acked = <<>>
                            \/ buffer # <<>> /\ acked = <<Head(buffer).id>>)

\* An entry was shifted, the consumer failed a delivery and then closed its response
\* channel, and an entry is still queued.
C8_Witness ==
    /\ Len(shifted) >= 1 /\ fails >= 1
    /\ responsesIn # "open" /\ buffer # <<>>

\* C9: after an error response the buffer keeps running, the entry is still the head
\* of the queue and used is unchanged (still the sum of the queued sizes).
C9_RetryWithoutLoss ==
    nacked # NoMsg =>
        /\ Alive
        /\ buffer # <<>> /\ Head(buffer) = nacked
        /\ used = SumSizes(buffer)

\* C10: error responses accumulate without taking the buffer down, and a batch of
\* errors holds every distinct error at most once.
C10_DistinctErrors ==
    /\ fails > 0 => Alive
    /\ NoDuplicates(errs) /\ NoDuplicates(errors) /\ NoDuplicates(lastBatch)

\* A step the buffer can take on its own: no producer sends or takes a response,
\* no consumer receives or answers, no reader takes an error batch.
BufferStep ==
    \/ InTop \/ InLimit \/ InRecvClosed \/ InPush \/ InSleep \/ InClose
    \/ OutTop \/ OutNext \/ OutRecvResClosed \/ OutShift \/ OutSleep \/ OutErrs \/ OutClose
    \/ LoopRecvMsgClosed \/ LoopRecvResClosed \/ LoopStop \/ LoopClose

\* C11: when the buffer closes messagesOut because the producer closed its channel
\* (no CloseAsync, the consumer still listening), every accepted message was
\* delivered and acknowledged: the queue is empty.
C11_ClosedInputDrains ==
    (messagesOut = "closed" /\ closer = "idle" /\ responsesIn = "open") =>
        /\ messagesIn # "open"
        /\ buffer = <<>>
        /\ acked = received

\* C12: no message is received from the producer and no pushMessage happens in
\* a step taken after CloseAsync was called.
C12_NoInputAfterClose ==
    [][closer = "called" => (received' = received /\ pushed' = pushed)]_vars

\* C13: after CloseAsync the loops terminate with messagesOut, responsesOut and
\* errorsChan closed whatever the producer and the consumer do: as long as they
\* have not, the buffer can take a step on its own.
C13_ShutdownPreempts ==
    (closer = "called" /\ Alive) =>
        \/ /\ LoopsFinished
           /\ messagesOut = "closed" /\ responsesOut = "closed" /\ errorsChan = "closed"
        \/ ENABLED BufferStep

\* C14: WaitForClose(timeout) returns nil only when every started loop has
\* finished, and returns ErrTimeout, and nothing else, only when the timeout
\* has elapsed; so it returns nil when the loops finished and the timeout has
\* not elapsed, and ErrTimeout when the timeout elapsed and a loop is still
\* running.  No step of the wait changes the queue or used.
C14_WaitForClose ==
    [][waitPc' # waitPc =>
          /\ UNCHANGED <<buffer, used>>
          /\ waitPc' = "returned" =>
                /\ ret'.op = "WaitForClose"
                /\ ret'.err \in {Nil, ErrTimeout}
                /\ ret'.err = Nil => LoopsFinished
                /\ ret'.err = ErrTimeout => waitPc = "fired"]_vars

\* A wait timed out while a loop was still running and a message was queued.
C14_Witness ==
    /\ waitPc = "returned" /\ ret.err = ErrTimeout
    /\ ~LoopsFinished
    /\ buffer # <<>>
    /\ closer = "called"
\* C15: the sink attempts made for a transaction are at targets in the
\* configured order without repetition, every attempt but the last failed, a
\* chain runs at target i + 1 only after the attempt at target i failed, and
\* the chain runs go over targets 1, 2, .. k with no target left out.
C15_FallbackOrder ==
    /\ \A j \in DOMAIN ChainRuns : ChainRuns[j].target = j
    /\ \A j \in DOMAIN SinkAttempts :
         /\ SinkAttempts[j].target = j
         /\ j < Len(SinkAttempts) => ~SinkAttempts[j].ok
    /\ Len(SinkAttempts) <= Len(ChainRuns)
    /\ Len(ChainRuns) <= Len(SinkAttempts) + 1
    /\ Len(ChainRuns) <= Len(fbProcs)
    /\ \A j \in DOMAIN fbLog :
         (fbLog[j].kind = "chain" /\ j > 1) =>
             fbLog[j - 1] = SinkAttempt(fbLog[j].target - 1, FALSE, fbLog[j - 1].msg)

\* Targets A and B rejected and target C accepted: three attempts in order.
C15_Witness ==
    /\ Resolved /\ Len(fbProcs) = 3
    /\ Len(SinkAttempts) = 3
    /\ SinkAttempts[3].ok

\* C16: when every configured target rejected the message the transaction is
\* resolved as rejected with the last target's error, and a rejection is sent
\* in no other case.
C16_Exhaustion ==
    /\ (Resolved /\ Len(SinkAttempts) = Len(fbProcs)
          /\ \A j \in DOMAIN SinkAttempts : ~SinkAttempts[j].ok)
         => fbAcks = <<Rejected(Len(fbProcs))>>
    /\ \A a \in DOMAIN fbAcks :
         ~fbAcks[a].accepted =>
             /\ fbAcks[a].target = Len(fbProcs)
             /\ Len(SinkAttempts) = Len(fbProcs)
             /\ \A j \in DOMAIN SinkAttempts : ~SinkAttempts[j].ok

\* Two or more targets all rejected.
C16_Witness ==
    /\ Resolved /\ Len(fbProcs) >= 2
    /\ Len(SinkAttempts) = Len(fbProcs)
    /\ ~SinkAttempts[Len(fbProcs)].ok
    /\ fbAcks = <<Rejected(Len(fbProcs))>>

\* C17: every chain is handed the original inbound payload, parts and
\* metadata, and what a sink is given is the original with that target's text
\* prepended to every part and nothing of an earlier target's.
C17_IndependentCopies ==
    /\ \A j \in DOMAIN ChainRuns : ChainRuns[j].msg = fbOrig
    /\ \A j \in DOMAIN SinkAttempts :
         SinkAttempts[j].msg.parts =
             [p \in DOMAIN fbOrig.parts |->
                 <<TargetText[SinkAttempts[j].target]>> \o fbOrig.parts[p]]

\* Target A prepended and rejected; target B was given "two-" + input.
C17_Witness ==
    /\ Len(SinkAttempts) >= 2
    /\ fbProcs[1] = "prepend"
    /\ fbOrig.parts = << <<"first">> >>
    /\ SinkAttempts[2].msg.parts = << <<"two-", "first">> >>

\* C18 as claimed: an accepted acknowledgement is preceded by a successful
\* sink attempt at one of the targets.
C18_AcceptedOnlyAfterSuccess ==
    \A a \in DOMAIN fbAcks :
        fbAcks[a].accepted => \E j \in DOMAIN SinkAttempts : SinkAttempts[j].ok

\* C18 amended: an accepted acknowledgement is preceded by a successful sink
\* attempt at one of the targets or by a chain run that filtered the message
\* down to zero parts.
C18_AcceptedOnlyAfterSuccessOrFilter ==
    \A a \in DOMAIN fbAcks :
        fbAcks[a].accepted =>
            \/ \E j \in DOMAIN SinkAttempts : SinkAttempts[j].ok
            \/ \E j \in DOMAIN ChainRuns : ~ChainRuns[j].ok

\* Accepted after a failure at target 1 and a success at target 2.
C18_Witness ==
    /\ fbAcks = <<Accepted>>
    /\ Len(SinkAttempts) = 2
    /\ SinkAttempts[2].ok

\* C19: when target i's chain filtered the message down to zero parts, no
\* attempt is made at target i, nothing is done at a later target, and the
\* transaction is resolved as accepted.
C19_FilteredIsAccepted ==
    \A j \in DOMAIN fbLog :
        (fbLog[j].kind = "chain" /\ fbProcs[fbLog[j].target] = "filter") =>
            /\ j = Len(fbLog)
            /\ \A k \in DOMAIN SinkAttempts : SinkAttempts[k].target < fbLog[j].target
            /\ fbAcks = <<Accepted>>
            /\ fbPc = "idle"

\* Target 1 rejected and target 2 filtered the message away, with a target
\* after it.
C19_Witness ==
    /\ Len(fbProcs) = 3 /\ fbProcs[2] = "filter"
    /\ Len(ChainRuns) = 2
    /\ Len(SinkAttempts) = 1
    /\ Resolved

\* C20: a resolved transaction has exactly one acknowledgement, one being
\* worked on has none, and the acknowledgement follows the deciding step: a
\* successful attempt, the failed attempt at the last target, or a chain that
\* filtered the message away.
C20_ExactlyOneOutcome ==
    /\ Resolved => Len(fbAcks) = 1
    /\ fbPc \in {"chain", "sink"} => fbAcks = <<>>
    /\ Len(fbAcks) <= 1
    /\ fbAcks # <<>> =>
         /\ fbLog # <<>>
         /\ LET last == fbLog[Len(fbLog)] IN
              \/ last.kind = "sink" /\ last.ok
              \/ last.kind = "sink" /\ ~last.ok /\ last.target = Len(fbProcs)
              \/ last.kind = "chain" /\ ~last.ok

\* The second transaction was resolved by the failure of the last target.
C20_Witness ==
    /\ Resolved /\ fbTxn = 2
    /\ Len(fbProcs) >= 2
    /\ Len(SinkAttempts) = Len(fbProcs)
    /\ Len(fbAcks) = 1
\* C21: with targets [A always fails, B succeeds, C], between transactions
\* and after the k-th message: A's chain and B's chain and sink ran once for
\* the message and nothing ran at C, the counter of A's chain and B's file
\* name is 2k, the counter of C's chain and B's file name is k, B holds k
\* artifacts, the k-th named by the counter values 2k and k and holding
\* "two-" + input, and the transaction was resolved as accepted.
C21_TestScenario ==
    /\ \A j \in DOMAIN fbLog : fbLog[j].target \in {1, 2}
    /\ Len(ChainRuns) <= 2 /\ Len(SinkAttempts) <= 2
    /\ Resolved =>
         /\ fbLog = << ChainRun(1, fbOrig, RunChain(1, fbOrig)),
                       SinkAttempt(1, FALSE, RunChain(1, fbOrig)),
                       ChainRun(2, fbOrig, RunChain(2, fbOrig)),
                       SinkAttempt(2, TRUE, RunChain(2, fbOrig)) >>
         /\ fbCounts["fallbacktofoo"] = 2 * fbTxn
         /\ fbCounts["fallbacktobar"] = fbTxn
         /\ Len(fbFiles) = fbTxn
         /\ fbFiles[fbTxn].content =
                [p \in DOMAIN fbOrig.parts |-> <<"two-">> \o fbOrig.parts[p]]
         /\ fbAcks = <<Accepted>>
    /\ \A k \in DOMAIN fbFiles : fbFiles[k].name = <<2 * k, k>>

\* The second message "first" has been written as "two-first" to bar-4-2.
C21_Witness ==
    /\ fbConf = TestConf
    /\ Resolved /\ fbTxn = 2
    /\ fbFiles[2] = [name |-> <<4, 2>>, content |-> << <<"two-", "first">> >>]
\* The loop on the producer's side is at its receive from messagesIn.
AcceptsInput ==
    \/ impl = "dual" /\ inPc = "recv"
    \/ impl = "loop" /\ loopPc = "select" /\ InMsgChanOn

\* The consumer's side or the caller ended the run: the response channel of
\* the consumer was closed, CloseAsync was called, or the process panicked.
RunEnded == closer = "called" \/ responsesIn # "open" \/ ~Alive

\* C22: when a push took usage above the limit and its response is deferred,
\* then, unless the run is ended, usage comes back to at most the limit, the
\* producer gets the response and the buffer is at its receive again.
C22_BackpressureEnds ==
    (used > limit /\ Len(responses) < Len(received))
        ~> ((used <= limit /\ Len(responses) = Len(received) /\ AcceptsInput) \/ RunEnded)

\* A single message larger than the limit was pushed, shifted after the
\* consumer's acknowledgement, and answered to the producer.
C22_Witness ==
    /\ lastPush > limit
    /\ used <= limit /\ Len(responses) = Len(received) /\ Len(received) >= 1
    /\ Len(acked) >= 1
    /\ AcceptsInput /\ ~RunEnded
\* C23: a call of nextMessage returns the head entry with a nil error and
\* leaves the queue and used as they were, so the entry is still the head
\* for the next call; on an empty queue it returns ErrOutOfBounds, no
\* message, and changes nothing.
C23_NextMessagePeeks ==
    [][ret'.op = "next" =>
          /\ UNCHANGED <<buffer, used>>
          /\ IF buffer = <<>>
             THEN ret'.err = ErrOutOfBounds /\ ret'.msg = NoMsg
             ELSE ret'.err = Nil /\ ret'.msg = Head(buffer) /\ ret'.msg = Head(buffer')]_vars

\* nextMessage returned the head of a queue of two entries after a shift.
C23_Witness ==
    /\ ret.op = "next" /\ ret.err = Nil
    /\ Len(buffer) = 2 /\ ret.msg = Head(buffer)
    /\ Len(shifted) = 1
\* C24: the /ready handler writes 200 exactly when every registered stream is
\* ready, also when no stream is registered, and else 503 with the ids of
\* the streams that are not ready; it changes no stream.
C24_ReadyHandler ==
    [][(resp' # resp /\ resp'.handler = "ready") =>
          /\ UNCHANGED streams
          /\ resp'.status = 200 <=> \A id \in Registered : streams[id].ready
          /\ resp'.status \in {200, 503}
          /\ resp'.status = 503 =>
                resp'.notReady = {id \in Registered : ~streams[id].ready}]_vars

\* /ready answered 503 naming one of two registered streams.
C24_Witness ==
    /\ resp.handler = "ready" /\ resp.status = 503
    /\ Cardinality(Registered) = 2
    /\ Cardinality(resp.notReady) = 1

\* C25: when a POST of set S to /streams has completed without error, the
\* registered ids are the keys of S and every stream has S's config; the ids
\* that were there and are not in S were deleted, those in both updated,
\* those only in S created, and no call was made twice.
C25_PostReplacesSet ==
    (req.kind = "none" /\ resp.handler = "streams" /\ resp.method = "POST"
        /\ resp.status = 200) =>
        /\ Registered = Keys(resp.newSet)
        /\ \A id \in Registered : streams[id].conf = resp.newSet[id]
        /\ NoDuplicates(resp.calls)
        /\ {resp.calls[i] : i \in DOMAIN resp.calls} =
              {<<"delete", id>> : id \in resp.infos \ Keys(resp.newSet)}
              \cup {<<"update", id>> : id \in resp.infos \cap Keys(resp.newSet)}
              \cup {<<"create", id>> : id \in Keys(resp.newSet) \ resp.infos}

\* A POST that deleted one stream and created another completed with 200.
C25_Witness ==
    /\ req.kind = "none" /\ resp.handler = "streams" /\ resp.method = "POST"
    /\ resp.status = 200
    /\ \E a, b \in StreamIds :
         /\ <<"delete", a>> \in {resp.calls[i] : i \in DOMAIN resp.calls}
         /\ <<"create", b>> \in {resp.calls[i] : i \in DOMAIN resp.calls}
\* C26: a generate input with count > 0 emits exactly count messages and then shuts
\* down, emitting no more; with count = 0 it never shuts down on its own account.
C26_CountThenShutdown ==
    /\ [](genCount > 0 => Len(genOut) <= genCount)
    /\ [](genPc = "closed" => genCount > 0 /\ Len(genOut) = genCount)
    /\ [][genPc = "closed" => UNCHANGED genOut]_vars
    /\ (genPc = "running" /\ genCount > 0)
          ~> (genPc = "stopped" \/ (genPc = "closed" /\ Len(genOut) = genCount))

\* An input with a count above one has shut down with all its messages out.
C26_Witness ==
    genPc = "closed" /\ genCount > 1 /\ Len(genOut) = genCount

\* A separator is replaced by "_"; every other part of a path is kept.
C27_Part(t) == IF t = "/" THEN "_" ELSE t

\* k is the key the claim gives file f: f's relative path with the extension
\* removed and every separator replaced by "_".
C27_KeyOf(k, f) ==
    /\ Len(k) = Len(f) - 1
    /\ \A i \in 1..Len(k) : k[i] = C27_Part(f[i])

\* The call returned one entry per config file, under the file's key and holding
\* the file's config, and no other key.
C27_OnePerFile ==
    /\ ~loadRet.err
    /\ Cardinality(DOMAIN loadRet.confs) = Cardinality(ConfigFiles(dirTree))
    /\ \A f \in ConfigFiles(dirTree) :
          \E k \in DOMAIN loadRet.confs : C27_KeyOf(k, f) /\ loadRet.confs[k] = dirTree[f]
    /\ \A k \in DOMAIN loadRet.confs :
          \E f \in ConfigFiles(dirTree) : C27_KeyOf(k, f)

\* No two config files under the directory have the same key.
C27_KeysDistinct ==
    \A f, g \in ConfigFiles(dirTree) :
        f # g => \/ Len(f) # Len(g)
                 \/ \E i \in 1..(Len(f) - 1) : C27_Part(f[i]) # C27_Part(g[i])

\* C27 as stated: LoadStreamConfigsFromDirectory returns exactly one entry per
\* config file found under the directory, recursively, keyed by the relative path
\* with the extension removed and the separators replaced by "_", each entry
\* holding the config parsed from that file; no other keys are present.
C27_OneEntryPerFile ==
    loadRet # <<>> => C27_OnePerFile

\* C27, amended: the same, for a directory in which no two config files have the
\* same key.
C27_OneEntryPerFileDistinct ==
    (loadRet # <<>> /\ C27_KeysDistinct) => C27_OnePerFile

\* The test's directory, foo.json and bar/test.yaml, beside a file that is no
\* config, was loaded.
C27_Witness ==
    /\ loadRet # <<>>
    /\ dirTree[<<"foo", ".json">>] = "bloblang"
    /\ dirTree[<<"bar", "/", "test", ".yaml">>] = "nanomsg"
    /\ dirTree[<<"bar", "/", "notes", ".txt">>] # NoFile
    /\ DOMAIN loadRet.confs = {<<"foo">>, <<"bar", "_", "test">>}
    /\ loadRet.confs[<<"foo">>] = "bloblang"
    /\ loadRet.confs[<<"bar", "_", "test">>] = "nanomsg"

\* C28: a response deferred because used exceeds the limit survives shutdown: when
\* the buffer has closed responsesOut, after CloseAsync or after the producer closed
\* its channel, with used still above the limit, no response is left deferred and
\* every stored message has had its response.
C28_DeferredAckSurvives ==
    (responsesOut = "closed" /\ used > limit) =>
        /\ ~responsePending /\ ~responseOutPending
        /\ Len(responses) >= Len(pushed)

\* C29: every read and every write of m.buffer and m.used by one of the buffer's
\* loops is made with the mutex held by that loop.
C29_AccessUnderMutex ==
    lkLast # <<>> => lkLast.held

\* C30: the mutex is never held by a loop that is suspended in a channel send, a
\* channel receive, a select or a timed wait, or that is at the top or the end of
\* its loop: whoever holds it is inside a queue method, between m.Lock() and the
\* deferred m.Unlock(), and can go on without any other goroutine.
C30_NeverHeldBlocked ==
    /\ \A g \in DOMAIN lkPc : lkPc[g].at \in {"block", "top", "done", "lock", "raw"} => mutex # g
    /\ mutex # "free" => lkPc[mutex].at \in {"held", "unlock"}

\* The input side is suspended in a channel operation after a queue method while
\* the output side holds the mutex.
C30_Witness ==
    /\ mutex = "outputLoop"
    /\ lkPc["inputLoop"].at = "block"
    /\ lkLast.by = "inputLoop"

\* C31: loop and the pair inputLoop/outputLoop keep the same invariants towards
\* the producer and the consumer.  Under either, every delivery hands over the
\* head of the queue, which is the oldest entry not yet shifted; no message is
\* received while used exceeds the limit; a response is sent only for a message
\* already pushed; and an entry is shifted only once the consumer has answered
\* its delivery with a nil error.
C31_Interchangeable ==
    [][\A i \in {"dual", "loop"} : impl = i =>
          /\ Delivery =>
                /\ buffer # <<>> /\ consMsg' = Head(buffer)
                /\ consMsg'.id = Len(shifted) + 1
          /\ received' # received => used <= limit
          /\ responses' # responses => Len(responses') <= Len(pushed)
          /\ shifted' # shifted =>
                /\ shifted' = Append(shifted, Head(buffer).id)
                /\ IsPrefix(shifted', acked')]_vars

\* The unified loop has shifted an entry, had a delivery of the next one failed and
\* holds back the producer's response with used above the limit.
C31_Witness ==
    /\ impl = "loop"
    /\ Len(shifted) >= 1 /\ fails >= 1
    /\ used > limit /\ responseOutPending

\* C32: once StartReceiving and StartListening have both returned nil, in either
\* order, the loops are running, launched exactly once, so that a message the
\* producer offers can be accepted and delivered.
C32_StartOrder ==
    (life.recvNil /\ life.listenNil) =>
        /\ life.loops = 1
        /\ inPc # "off" /\ outPc # "off"

\* C33: a Start call on a buffer whose channel of that kind is assigned returns
\* ErrAlreadyStarted, leaves the assigned channel in place and launches no loops;
\* the loops are launched at most once per buffer.
C33_AlreadyStarted ==
    /\ [](life.loops <= 1)
    /\ [][(life'.calls # life.calls /\ ret'.op = "StartReceiving" /\ life.msgs # 0) =>
              /\ ret'.err = ErrAlreadyStarted
              /\ life'.msgs = life.msgs /\ messagesIn' = messagesIn
              /\ life'.loops = life.loops /\ UNCHANGED <<inPc, outPc>>]_vars
    /\ [][(life'.calls # life.calls /\ ret'.op = "StartListening" /\ life.resps # 0) =>
              /\ ret'.err = ErrAlreadyStarted
              /\ life'.resps = life.resps /\ responsesIn' = responsesIn
              /\ life'.loops = life.loops /\ UNCHANGED <<inPc, outPc>>]_vars

\* A second StartListening was refused while the loops, launched once, had taken
\* a message from the producer.
C33_Witness ==
    /\ ret.op = "StartListening" /\ ret.err = ErrAlreadyStarted
    /\ life.loops = 1 /\ life.resps = 2
    /\ Len(received) >= 1

\* C34: any number of CloseAsync calls leaves the buffer closing, with running at 0
\* and closeChan closed, and without a runtime fault.
C34_CloseAsyncTwice ==
    closer # "idle" =>
        /\ running = 0 /\ closeChan = "closed"
        /\ Alive

\* The goroutine that sends on and closes responsesOut, and the one that sends on
\* and closes messagesOut and errorsChan.
C35_ResponsesPc == IF impl = "loop" THEN loopPc ELSE inPc
C35_MessagesPc == IF impl = "loop" THEN loopPc ELSE outPc

\* C35: messagesOut, responsesOut and errorsChan are each closed exactly once: no
\* close finds its channel closed, a closed channel stays closed, and each is
\* closed once its loop is about to end.  The buffer never sends on one of them
\* after the close: the loop that sends on a channel is the one that closed it and
\* has ended, and every send finds the channel open.
C35_ChannelDiscipline ==
    /\ [](panicked # "close of closed channel")
    /\ [](responsesOut = "closed" => C35_ResponsesPc = "done")
    /\ [](messagesOut = "closed" \/ errorsChan = "closed" =>
              messagesOut = "closed" /\ errorsChan = "closed" /\ C35_MessagesPc = "done")
    /\ [](LoopsFinished /\ impl \in {"dual", "loop"} =>
              messagesOut = "closed" /\ errorsChan = "closed" /\ responsesOut = "closed")
    /\ [][/\ responsesOut = "closed" => responsesOut' = "closed" /\ responses' = responses
          /\ messagesOut = "closed" => messagesOut' = "closed" /\ ~Delivery
          /\ errorsChan = "closed" => errorsChan' = "closed" /\ lastBatch' = lastBatch]_vars

\* inputLoop has closed responsesOut after answering the producer, while outputLoop,
\* a delivery behind it, has not yet closed its channels; CloseAsync was called.
C35_Witness ==
    /\ impl = "dual" /\ closer = "called"
    /\ responsesOut = "closed" /\ messagesOut = "open" /\ errorsChan = "open"
    /\ Len(responses) >= 1 /\ Len(acked) >= 1

\* The buffer is at a point where it offers a message to the consumer.
C36_Offering ==
    \/ impl = "dual" /\ outPc = "send"
    \/ impl = "loop" /\ loopPc = "select" /\ OutMsgChanOn

\* C36: at most one delivery is outstanding: while the consumer has not answered a
\* delivery the buffer does not offer another message, and every delivery hands
\* over the entry at the head of the queue at that moment, which stays the head
\* while the delivery is outstanding.
C36_OneOutstanding ==
    /\ [](consPc = "respond" => ~C36_Offering /\ buffer # <<>> /\ consMsg = Head(buffer))
    /\ [][Delivery => C36_Offering /\ consMsg' = Head(buffer) /\ consMsg' = Head(buffer')]_vars

\* The unified loop has redelivered the head after an error response, a second
\* entry waiting behind it.
C36_Witness ==
    /\ impl = "loop" /\ consPc = "respond"
    /\ fails >= 1 /\ Len(buffer) >= 2

\* C37: two POST /streams requests served at once are serializable: when both
\* have returned, every call of theirs having succeeded, the ids registered are
\* the keys of the one set or the keys of the other, never a mixture.
C37_PostsSerializable ==
    (\A r \in DOMAIN posts : posts[r].pc = "200") =>
        \/ Registered = Keys(posts[1].newSet)
        \/ Registered = Keys(posts[2].newSet)


\* The requests that meet the lint gate, and those that are let past it.
C38_Gated ==
    /\ resp' # resp
    /\ ~resp'.chilled /\ resp'.lints
    /\ \/ resp'.handler = "streams" /\ resp'.method = "POST"
       \/ resp'.handler = "stream" /\ resp'.method \in {"POST", "PUT"} /\ resp'.decodes
C38_Chilled ==
    /\ resp' # resp
    /\ resp'.chilled /\ resp'.lints /\ resp'.decodes
    /\ resp'.handler = "stream" /\ resp'.method \in {"POST", "PUT"}
C38_ChilledSet == req.kind = "none" /\ req'.kind = "post" /\ req'.chilled /\ req'.lints
C39_Exists == resp' # resp /\ resp'.handler = "stream" /\ resp'.method = "POST" /\ resp'.id \in Registered
C39_Missing(methods) ==
    resp' # resp /\ resp'.handler = "stream" /\ resp'.method \in methods /\ resp'.id \notin Registered
C39_Passes == resp'.decodes /\ (resp'.chilled \/ ~resp'.lints)
\* C39 as stated: every POST of /streams/{id} for an id that is registered is
\* answered 400 "Stream already exists" with the streams as they were, and every
\* GET, PUT, PATCH and DELETE for an id that is not registered is answered 404
\* "Stream not found" with the streams as they were.
C39_ErrorOutcomes ==
    [][/\ C39_Exists => /\ resp'.status = 400 /\ resp'.body = "Stream already exists"
                        /\ streams' = streams
       /\ C39_Missing({"GET", "PUT", "PATCH", "DELETE"})
            => /\ resp'.status = 404 /\ resp'.body = "Stream not found"
               /\ streams' = streams]_vars

\* C39, amended: the POST and the PUT are answered so when their body is a config
\* that passes the lint gate (otherwise they are answered 400 for the body before
\* the id is looked at), the GET, PATCH and DELETE always; in every one of these
\* cases the streams stay as they were and the answer is never 502.
C39_ErrorOutcomesOfReadRequests ==
    [][/\ C39_Exists => /\ resp'.status = 400 /\ streams' = streams
                        /\ C39_Passes => resp'.body = "Stream already exists"
                        /\ ~C39_Passes => resp'.body \in {"Error", "lint_errors"}
       /\ C39_Missing({"GET", "PATCH", "DELETE"})
            => /\ resp'.status = 404 /\ resp'.body = "Stream not found"
               /\ streams' = streams
       /\ C39_Missing({"PUT"})
            => /\ streams' = streams
               /\ C39_Passes => resp'.status = 404 /\ resp'.body = "Stream not found"
               /\ ~C39_Passes => resp'.status = 400 /\ resp'.body \in {"Error", "lint_errors"}]_vars
C39_Witness ==
    /\ resp.handler = "stream" /\ resp.method = "PUT" /\ resp.id \notin Registered
    /\ resp.decodes /\ ~resp.lints
    /\ resp.status = 404 /\ resp.body = "Stream not found"
    /\ Registered # {}

====
